---- MODULE Spec2Model ----
(***************************************************************************)
(* Model of the client-side logic of the legal-tech portal:                *)
(*   - CNJSearch: the CNJ process-number mask applied on every input       *)
(*     change of the search field (formatProcessNumber, handleInputChange);*)
(*   - CaseManagement: the deadline arithmetic behind the urgency flag     *)
(*     (getDaysUntilDeadline, isUrgent), the list of cases with its        *)
(*     filters, and the creation form;                                     *)
(*   - Home, MarketData, AccountInfo: the periodic re-fetch;               *)
(*   - Search: the CNJ lookup (handleCnjSearch);                           *)
(*   - DocumentUpload: validateFile and handleFiles.                       *)
(* A JavaScript string is a sequence of one-character strings.  An instant *)
(* is a number of milliseconds counted from 2024-01-01T00:00:00.000Z, so   *)
(* that every value stays inside TLC's 32-bit integers.                    *)
(***************************************************************************)
EXTENDS Integers, Sequences, FiniteSets, TLC

VARIABLES
    value,          \* CNJSearch: e.target.value of the last change event
    processNumber,  \* CNJSearch: the state of the search field
    searchResults,  \* CNJSearch: the response of the last search, or null
    error,          \* CNJSearch: the error message shown, or null
    isLoading,      \* CNJSearch: a search is running
    pendingSearches, \* CNJSearch: search requests sent and not yet answered
    now,            \* CaseManagement: the wall clock read by new Date()
    case_,          \* CaseManagement: the case being rendered
    rendered,       \* CaseManagement: the case has been rendered
    renderedAt,     \* CaseManagement: clock value read by the last render
    days,           \* CaseManagement: the day count of the deadline label
    urgent,         \* CaseManagement: isUrgent(case_) of the last render
    cases,          \* CaseManagement: the list of cases
    filteredCases,  \* CaseManagement: the cases displayed
    casesLoading,   \* CaseManagement: isLoading
    casesError,     \* CaseManagement: error
    searchTerm,     \* CaseManagement: text of the search filter
    selectedStatus, \* CaseManagement: status filter
    selectedType,   \* CaseManagement: case type filter
    showNewCaseForm, \* CaseManagement: the creation form is open
    isSubmitting,   \* CaseManagement: a creation is running
    newCase,        \* CaseManagement: the fields of the creation form
    pendingCreate,  \* CaseManagement: body of the POST not yet answered, or null
    apiStatus,      \* Home: 'checking', 'connected' or 'error'
    isConnected,    \* Home: a health check has succeeded
    activeTab,      \* Dashboard: the tab whose component is mounted
    inFlight,       \* per polling component: unresolved runs of its fetch function
    orphans,        \* per polling component: unresolved runs of unmounted instances
    pollLoading,    \* MarketData, AccountInfo: isLoading
    pollError,      \* MarketData, AccountInfo: error
    pollData,       \* MarketData, AccountInfo: data has been received
    firedTimer,     \* the component whose interval timer made the last step
    cnjSearchTerm,  \* Search: text of the CNJ search field
    cnjLoading,     \* Search: a CNJ lookup is running
    cnjError,       \* Search: error of the last CNJ lookup, or null
    processoDetalhado, \* Search: result of the last CNJ lookup, or null
    selectedCase,   \* Search: the case shown in detail, or null
    cnjLookups,     \* Search: calls of searchProcessoCNJ made so far
    uploadedFiles,  \* DocumentUpload: the list of files
    isDragOver,     \* DocumentUpload: files are dragged over the drop zone
    fileQueue,      \* DocumentUpload: files handleFiles has still to look at
    currentUpload,  \* DocumentUpload: the entry handleFiles is uploading
    nextFileId,     \* DocumentUpload: number of ids generated so far, plus one
    uploadRequests, \* DocumentUpload: files sent to the upload endpoint
    renderStep,     \* CaseManagement: urgency evaluations done in the running render
    countUrgent,    \* CaseManagement: isUrgent(case_) behind the 'Casos Urgentes' count
    badgeUrgent,    \* CaseManagement: isUrgent(case_) behind the 'Urgente' badge
    labelRed,       \* CaseManagement: getDaysUntilDeadline(...) <= 7 of the label colour
    labelDays,      \* CaseManagement: getDaysUntilDeadline(...) of the label text
    formData,       \* TradingPanel: the fields of the order form
    tradeSubmitting, \* TradingPanel: isSubmitting
    message,        \* TradingPanel: the message shown, or null
    pendingTrade,   \* TradingPanel: formData as the running handleSubmit sees it, or null
    lastHealth      \* Home: the response of the health check that completed last

vars ==
    <<value, processNumber, searchResults, error, isLoading, pendingSearches,
      now, case_, rendered, renderedAt, days, urgent,
      cases, filteredCases, casesLoading, casesError, searchTerm, selectedStatus,
      selectedType, showNewCaseForm, isSubmitting, newCase, pendingCreate,
      apiStatus, isConnected, activeTab, inFlight, orphans, pollLoading,
      pollError, pollData, firedTimer,
      cnjSearchTerm, cnjLoading, cnjError, processoDetalhado, selectedCase,
      cnjLookups,
      uploadedFiles, isDragOver, fileQueue, currentUpload, nextFileId,
      uploadRequests,
      renderStep, countUrgent, badgeUrgent, labelRed, labelDays,
      formData, tradeSubmitting, message, pendingTrade, lastHealth>>

renderVars == <<renderStep, countUrgent, badgeUrgent, labelRed, labelDays>>

tradeVars == <<formData, tradeSubmitting, message, pendingTrade>>

pollVars ==
    <<apiStatus, isConnected, activeTab, inFlight, orphans, pollLoading,
      pollError, pollData, firedTimer, lastHealth>>

lookupVars ==
    <<cnjSearchTerm, cnjLoading, cnjError, processoDetalhado, selectedCase,
      cnjLookups>>

uploadVars ==
    <<uploadedFiles, isDragOver, fileQueue, currentUpload, nextFileId, uploadRequests>>

\* the components besides CNJSearch and CaseManagement
otherVars == <<pollVars, lookupVars, uploadVars, tradeVars>>

searchVars == <<searchResults, error, isLoading, pendingSearches>>

cnjVars == <<value, processNumber, searchResults, error, isLoading, pendingSearches>>
urgencyVars == <<now, case_, rendered, renderedAt, days, urgent>>

filterVars == <<searchTerm, selectedStatus, selectedType>>

formVars == <<showNewCaseForm, isSubmitting, newCase, pendingCreate>>

listVars ==
    <<cases, filteredCases, casesLoading, casesError, searchTerm, selectedStatus,
      selectedType, showNewCaseForm, isSubmitting, newCase, pendingCreate>>

caseVars ==
    <<now, case_, rendered, renderedAt, days, urgent,
      cases, filteredCases, casesLoading, casesError, searchTerm, selectedStatus,
      selectedType, showNewCaseForm, isSubmitting, newCase, pendingCreate,
      renderStep, countUrgent, badgeUrgent, labelRed, labelDays>>

(***************************************************************************)
(* Bounds of the model.                                                    *)
(***************************************************************************)
\* longest run of digits put into the search field
MaxDigits == 22
\* digit runs start at offsets 0..MaxStart of the cycle 1234567890
MaxStart == 2
\* deadlines go back to MaxPastDays days before 2024-01-01
MaxPastDays == 16
\* deadlines go up to MaxFutureDays days after 2024-01-01
MaxFutureDays == 9
\* the clock runs from 2024-01-01 to MaxClockDays days later
MaxClockDays == 1

\* cases created in one run of the creation form
MaxCreated == 2

\* unresolved runs of the fetch function of one polling component
MaxInFlight == 2

\* files given to DocumentUpload in one run
MaxFiles == 2

(***************************************************************************)
(* Characters and strings.                                                 *)
(***************************************************************************)
DigitCycle == <<"1", "2", "3", "4", "5", "6", "7", "8", "9", "0">>

DigitChars == {DigitCycle[i] : i \in 1..Len(DigitCycle)}

\* characters a user can put into the field that are not ASCII digits
NonDigitChars == {"-", ".", "a", " "}

IsDigit(c) == c \in DigitChars

Min(a, b) == IF a <= b THEN a ELSE b

\* String.prototype.slice(start, end) for 0 <= start, 0 <= end
slice(s, start, end) == SubSeq(s, start + 1, Min(end, Len(s)))

\* String.prototype.slice(start)
sliceFrom(s, start) == SubSeq(s, start + 1, Len(s))

\* the pattern also keeps the separators of the mask (/[^\d.-]/g for /\D/g)
removeNonDigits_KeepsSeparators(s) ==
    SelectSeq(s, LAMBDA c : c \in DigitChars \cup {"-", "."})

\* value.replace(/\D/g, ''): every character that is not 0-9 is dropped
removeNonDigits(s) == SelectSeq(s, IsDigit)

(***************************************************************************)
(* Faulty variants of formatProcessNumber, used to show that the           *)
(* properties below depend on it.                                          *)
(***************************************************************************)
\* the last branch keeps every digit after the 16th (slice(16) for
\* slice(16, 20))
formatProcessNumber_NoTruncate(v) ==
    LET numbers == removeNonDigits(v)
    IN  IF Len(numbers) <= 7 THEN
            numbers
        ELSE IF Len(numbers) <= 9 THEN
            slice(numbers, 0, 7) \o <<"-">> \o sliceFrom(numbers, 7)
        ELSE IF Len(numbers) <= 13 THEN
            slice(numbers, 0, 7) \o <<"-">> \o slice(numbers, 7, 9) \o <<".">>
                \o sliceFrom(numbers, 9)
        ELSE IF Len(numbers) <= 14 THEN
            slice(numbers, 0, 7) \o <<"-">> \o slice(numbers, 7, 9) \o <<".">>
                \o slice(numbers, 9, 13) \o <<".">> \o sliceFrom(numbers, 13)
        ELSE IF Len(numbers) <= 16 THEN
            slice(numbers, 0, 7) \o <<"-">> \o slice(numbers, 7, 9) \o <<".">>
                \o slice(numbers, 9, 13) \o <<".">> \o slice(numbers, 13, 14)
                \o <<".">> \o sliceFrom(numbers, 14)
        ELSE
            slice(numbers, 0, 7) \o <<"-">> \o slice(numbers, 7, 9) \o <<".">>
                \o slice(numbers, 9, 13) \o <<".">> \o slice(numbers, 13, 14)
                \o <<".">> \o slice(numbers, 14, 16) \o <<".">>
                \o sliceFrom(numbers, 16)

\* the branch of 14 digits cuts the year group one digit short
\* (slice(9, 12) for slice(9, 13))
formatProcessNumber_WrongSlice(v) ==
    LET numbers == removeNonDigits(v)
    IN  IF Len(numbers) <= 7 THEN
            numbers
        ELSE IF Len(numbers) <= 9 THEN
            slice(numbers, 0, 7) \o <<"-">> \o sliceFrom(numbers, 7)
        ELSE IF Len(numbers) <= 13 THEN
            slice(numbers, 0, 7) \o <<"-">> \o slice(numbers, 7, 9) \o <<".">>
                \o sliceFrom(numbers, 9)
        ELSE IF Len(numbers) <= 14 THEN
            slice(numbers, 0, 7) \o <<"-">> \o slice(numbers, 7, 9) \o <<".">>
                \o slice(numbers, 9, 12) \o <<".">> \o sliceFrom(numbers, 13)
        ELSE IF Len(numbers) <= 16 THEN
            slice(numbers, 0, 7) \o <<"-">> \o slice(numbers, 7, 9) \o <<".">>
                \o slice(numbers, 9, 13) \o <<".">> \o slice(numbers, 13, 14)
                \o <<".">> \o sliceFrom(numbers, 14)
        ELSE
            slice(numbers, 0, 7) \o <<"-">> \o slice(numbers, 7, 9) \o <<".">>
                \o slice(numbers, 9, 13) \o <<".">> \o slice(numbers, 13, 14)
                \o <<".">> \o slice(numbers, 14, 16) \o <<".">>
                \o slice(numbers, 16, 20)

\* every threshold is compared with < for <=
formatProcessNumber_Strict(v) ==
    LET numbers == removeNonDigits(v)
    IN  IF Len(numbers) < 7 THEN
            numbers
        ELSE IF Len(numbers) < 9 THEN
            slice(numbers, 0, 7) \o <<"-">> \o sliceFrom(numbers, 7)
        ELSE IF Len(numbers) < 13 THEN
            slice(numbers, 0, 7) \o <<"-">> \o slice(numbers, 7, 9) \o <<".">>
                \o sliceFrom(numbers, 9)
        ELSE IF Len(numbers) < 14 THEN
            slice(numbers, 0, 7) \o <<"-">> \o slice(numbers, 7, 9) \o <<".">>
                \o slice(numbers, 9, 13) \o <<".">> \o sliceFrom(numbers, 13)
        ELSE IF Len(numbers) < 16 THEN
            slice(numbers, 0, 7) \o <<"-">> \o slice(numbers, 7, 9) \o <<".">>
                \o slice(numbers, 9, 13) \o <<".">> \o slice(numbers, 13, 14)
                \o <<".">> \o sliceFrom(numbers, 14)
        ELSE
            slice(numbers, 0, 7) \o <<"-">> \o slice(numbers, 7, 9) \o <<".">>
                \o slice(numbers, 9, 13) \o <<".">> \o slice(numbers, 13, 14)
                \o <<".">> \o slice(numbers, 14, 16) \o <<".">>
                \o slice(numbers, 16, 20)

(***************************************************************************)
(* CNJSearch.formatProcessNumber                                           *)
(***************************************************************************)
formatProcessNumber(v) ==
    LET numbers == removeNonDigits(v)
    IN  IF Len(numbers) <= 7 THEN
            numbers
        ELSE IF Len(numbers) <= 9 THEN
            slice(numbers, 0, 7) \o <<"-">> \o sliceFrom(numbers, 7)
        ELSE IF Len(numbers) <= 13 THEN
            slice(numbers, 0, 7) \o <<"-">> \o slice(numbers, 7, 9) \o <<".">>
                \o sliceFrom(numbers, 9)
        ELSE IF Len(numbers) <= 14 THEN
            slice(numbers, 0, 7) \o <<"-">> \o slice(numbers, 7, 9) \o <<".">>
                \o slice(numbers, 9, 13) \o <<".">> \o sliceFrom(numbers, 13)
        ELSE IF Len(numbers) <= 16 THEN
            slice(numbers, 0, 7) \o <<"-">> \o slice(numbers, 7, 9) \o <<".">>
                \o slice(numbers, 9, 13) \o <<".">> \o slice(numbers, 13, 14)
                \o <<".">> \o sliceFrom(numbers, 14)
        ELSE
            slice(numbers, 0, 7) \o <<"-">> \o slice(numbers, 7, 9) \o <<".">>
                \o slice(numbers, 9, 13) \o <<".">> \o slice(numbers, 13, 14)
                \o <<".">> \o slice(numbers, 14, 16) \o <<".">>
                \o slice(numbers, 16, 20)

\* maxLength attribute of the search field: the browser lets no user edit
\* make the field longer than this
maxLength == 25

(***************************************************************************)
(* Texts entered into the field.                                           *)
(***************************************************************************)
\* n consecutive digits of the cycle 1234567890, starting at offset s
DigitRun(s, n) == [i \in 1..n |-> DigitCycle[((s + i - 1) % Len(DigitCycle)) + 1]]

\* s with the character c inserted after its first p characters
InsertAt(s, p, c) == SubSeq(s, 1, p) \o <<c>> \o SubSeq(s, p + 1, Len(s))

DigitRuns == {DigitRun(s, n) : s \in 0..MaxStart, n \in 0..MaxDigits}

\* texts that replace the whole content of the field (select all, paste):
\* a run of digits, possibly with one other character somewhere in it
PasteTexts ==
    DigitRuns \cup
    UNION {{InsertAt(d, p, c) : p \in 0..Len(d), c \in NonDigitChars} : d \in DigitRuns}

\* the digit key that continues the run of digits shown in the field
NextDigits(s) ==
    LET numbers == removeNonDigits(s)
    IN  IF numbers = <<>> THEN {DigitCycle[k + 1] : k \in 0..MaxStart}
        ELSE LET last == CHOOSE k \in 1..Len(DigitCycle) :
                             DigitCycle[k] = numbers[Len(numbers)]
             IN  {DigitCycle[(last % Len(DigitCycle)) + 1]}

(***************************************************************************)
(* CNJSearch.handleInputChange                                             *)
(***************************************************************************)
\* the JavaScript value null
Null == [type |-> "null"]

\* typing also clears the error and the results of the last search
handleInputChange_ClearsSearch(v) ==
    /\ Len(v) <= maxLength
    /\ value' = v
    /\ processNumber' = formatProcessNumber(v)
    /\ error' = Null
    /\ searchResults' = Null
    /\ UNCHANGED <<isLoading, pendingSearches>>
    /\ UNCHANGED <<caseVars, otherVars>>

handleInputChange(v) ==
    /\ Len(v) <= maxLength
    /\ value' = v
    /\ processNumber' = formatProcessNumber(v)
    /\ UNCHANGED searchVars
    /\ UNCHANGED <<caseVars, otherVars>>

\* a text is pasted into the empty field (pasting over a selected content
\* gives the same event value, so no state is lost by starting from empty)
Paste ==
    /\ processNumber = <<>>
    /\ \E v \in PasteTexts : handleInputChange(v)

\* one key is typed at the end of the field
TypeKey ==
    \E c \in NextDigits(processNumber) \cup NonDigitChars :
        /\ Len(processNumber) < maxLength
        /\ handleInputChange(Append(processNumber, c))

\* the last character of the field is deleted
Backspace ==
    /\ processNumber # <<>>
    /\ handleInputChange(SubSeq(processNumber, 1, Len(processNumber) - 1))

(***************************************************************************)
(* CNJSearch.handleSearch: the request, and the two ways it ends.          *)
(***************************************************************************)
\* String.prototype.trim, for the white space of the model (the blank)
RECURSIVE trim(_)
trim(s) ==
    IF s = <<>> THEN s
    ELSE IF s[1] = " " THEN trim(SubSeq(s, 2, Len(s)))
    ELSE IF s[Len(s)] = " " THEN trim(SubSeq(s, 1, Len(s) - 1))
    ELSE s

\* an error message (a non-empty string)
ErrorMessage(m) == [type |-> "string", text |-> m]

\* CNJSearchResponse, with the number of results it reports
SearchResponse(n) == [type |-> "response", total_results |-> n]

SearchResponses == {SearchResponse(n) : n \in 0..1}

\* `Erro na busca: ${response.status}` of a response that is not ok, and
\* the message of the error thrown by fetch when the network fails
SearchErrors ==
    {ErrorMessage("Erro na busca: 404"), ErrorMessage("Erro na busca: 500"),
     ErrorMessage("Failed to fetch")}

\* the submit button is enabled: disabled={isLoading || !processNumber.trim()}
SubmitEnabled == ~isLoading /\ trim(processNumber) # <<>>

\* the results of the last search are kept when a new one starts
handleSearch_KeepsResults ==
    /\ SubmitEnabled
    /\ trim(processNumber) # <<>>
    /\ isLoading' = TRUE
    /\ error' = Null
    /\ pendingSearches' = pendingSearches + 1
    /\ UNCHANGED <<value, processNumber, searchResults>>
    /\ UNCHANGED <<caseVars, otherVars>>

\* handleSearch up to the await of fetch
handleSearch ==
    /\ SubmitEnabled
    /\ trim(processNumber) # <<>>
    /\ isLoading' = TRUE
    /\ error' = Null
    /\ searchResults' = Null
    /\ pendingSearches' = pendingSearches + 1
    /\ UNCHANGED <<value, processNumber>>
    /\ UNCHANGED <<caseVars, otherVars>>

\* handleSearch after the await: the response is ok and its JSON is stored
searchSucceeds ==
    /\ pendingSearches > 0
    /\ \E data \in SearchResponses : searchResults' = data
    /\ isLoading' = FALSE
    /\ pendingSearches' = pendingSearches - 1
    /\ UNCHANGED <<value, processNumber, error>>
    /\ UNCHANGED <<caseVars, otherVars>>

\* handleSearch after the await: fetch rejects or the response is not ok;
\* the catch block stores the message
searchFails ==
    /\ pendingSearches > 0
    /\ \E m \in SearchErrors : error' = m
    /\ isLoading' = FALSE
    /\ pendingSearches' = pendingSearches - 1
    /\ UNCHANGED <<value, processNumber, searchResults>>
    /\ UNCHANGED <<caseVars, otherVars>>

CnjInit ==
    /\ value = <<>>
    /\ processNumber = <<>>
    /\ searchResults = Null
    /\ error = Null
    /\ isLoading = FALSE
    /\ pendingSearches = 0

\* the components that poll the backend
Pollers == {"Home", "MarketData", "AccountInfo"}

\* the components that Dashboard mounts under a tab
TabPollers == {"MarketData", "AccountInfo"}

\* Home after mount, its first health check on the way
PollInit ==
    /\ apiStatus = "checking"
    /\ isConnected = FALSE
    /\ activeTab = "cases"
    /\ inFlight = [p \in Pollers |-> IF p = "Home" THEN 1 ELSE 0]
    /\ orphans = [p \in Pollers |-> 0]
    /\ pollLoading = [p \in TabPollers |-> TRUE]
    /\ pollError = [p \in TabPollers |-> Null]
    /\ pollData = [p \in TabPollers |-> FALSE]
    /\ firedTimer = "none"
    /\ lastHealth = "none"

\* Search after construction
LookupInit ==
    /\ cnjSearchTerm = <<>>
    /\ cnjLoading = FALSE
    /\ cnjError = Null
    /\ processoDetalhado = Null
    /\ selectedCase = Null
    /\ cnjLookups = {}

\* handleFiles is not running
NoUpload == [id |-> 0, progress |-> 0]

\* DocumentUpload after construction
UploadInit ==
    /\ uploadedFiles = <<>>
    /\ isDragOver = FALSE
    /\ fileQueue = <<>>
    /\ currentUpload = NoUpload
    /\ nextFileId = 1
    /\ uploadRequests = {}

\* the initial value of the order form (useState)
InitialOrder ==
    [symbol |-> "WINFUT", side |-> "BUY", quantity |-> "1", price |-> "",
     stop_loss |-> "", take_profit |-> "", comment |-> ""]

\* TradingPanel after construction
TradeInit ==
    /\ formData = InitialOrder
    /\ tradeSubmitting = FALSE
    /\ message = Null
    /\ pendingTrade = Null

OtherInit == PollInit /\ LookupInit /\ UploadInit /\ TradeInit

(***************************************************************************)
(* JavaScript values of CaseManagement.  A number is a record so that NaN  *)
(* is a number too; an optional string is undefined, null or a string.     *)
(***************************************************************************)
Num(n) == [nan |-> FALSE, v |-> n]

NaN == [nan |-> TRUE, v |-> 0]

Undefined == [type |-> "undefined"]

Str(s) == [type |-> "string", chars |-> s]

\* JavaScript truthiness of an optional string: undefined, null and ''
\* are falsy
Truthy(x) == x.type = "string" /\ x.chars # <<>>

\* a <= b on numbers: false as soon as one side is NaN
NumLeq(a, b) == ~a.nan /\ ~b.nan /\ a.v <= b.v

\* a >= b on numbers: false as soon as one side is NaN
NumGeq(a, b) == ~a.nan /\ ~b.nan /\ a.v >= b.v

\* value of the day count before the deadline label is rendered
NotEvaluated == [type |-> "none"]

\* before a case is loaded
NoCase == [id |-> "none", deadline_date |-> Undefined]

\* the initial value of the creation form (useState<NewCaseForm>)
EmptyForm ==
    [title |-> <<>>, description |-> <<>>, case_type |-> "civil",
     client_id |-> <<>>, opposing_party |-> <<>>, court_date |-> <<>>,
     deadline_date |-> <<>>]

\* CaseManagement after construction: the list is empty and being loaded
ListInit ==
    /\ cases = <<>>
    /\ filteredCases = <<>>
    /\ casesLoading = TRUE
    /\ casesError = Null
    /\ searchTerm = <<>>
    /\ selectedStatus = "all"
    /\ selectedType = "all"
    /\ showNewCaseForm = FALSE
    /\ isSubmitting = FALSE
    /\ newCase = EmptyForm
    /\ pendingCreate = Null

\* no render of the case list is running
RenderIdle ==
    /\ renderStep = 0
    /\ countUrgent = FALSE
    /\ badgeUrgent = FALSE
    /\ labelRed = FALSE
    /\ labelDays = NotEvaluated

CaseIdle ==
    /\ RenderIdle
    /\ now = 0
    /\ case_ = NoCase
    /\ rendered = FALSE
    /\ renderedAt = 0
    /\ days = NotEvaluated
    /\ urgent = FALSE
    /\ ListInit

(***************************************************************************)
(* Dates.  new Date(text) of the ISO-8601 forms YYYY-MM-DDTHH:mm:ss.sssZ   *)
(* and YYYY-MM-DDTHH:mm:ssZ; any other text read here gives an invalid     *)
(* Date, whose getTime() is NaN.                                           *)
(***************************************************************************)
\* 1000 * 60 * 60 * 24, the divisor of getDaysUntilDeadline
msPerDay == 1000 * 60 * 60 * 24

DigitValue(c) == (CHOOSE k \in 1..Len(DigitCycle) : DigitCycle[k] = c) % 10

DigitChar(k) == DigitCycle[IF k = 0 THEN 10 ELSE k]

RECURSIVE DecimalValue(_)
DecimalValue(s) ==
    IF s = <<>> THEN 0
    ELSE DecimalValue(SubSeq(s, 1, Len(s) - 1)) * 10 + DigitValue(s[Len(s)])

\* days from 1970-01-01 to the civil date y-m-d (proleptic Gregorian)
DaysFromCivil(y, m, d) ==
    LET yy == IF m <= 2 THEN y - 1 ELSE y
        era == yy \div 400
        yoe == yy - era * 400
        mp == IF m > 2 THEN m - 3 ELSE m + 9
        doy == (153 * mp + 2) \div 5 + d - 1
        doe == yoe * 365 + yoe \div 4 - yoe \div 100 + doy
    IN  era * 146097 + doe - 719468

\* the day that instants are counted from: 2024-01-01
OriginDay == DaysFromCivil(2024, 1, 1)

AllDigits(s, from, to) == \A i \in from..to : s[i] \in DigitChars

IsIsoShape(s) ==
    /\ Len(s) \in {20, 24}
    /\ AllDigits(s, 1, 4) /\ s[5] = "-"
    /\ AllDigits(s, 6, 7) /\ s[8] = "-"
    /\ AllDigits(s, 9, 10) /\ s[11] = "T"
    /\ AllDigits(s, 12, 13) /\ s[14] = ":"
    /\ AllDigits(s, 15, 16) /\ s[17] = ":"
    /\ AllDigits(s, 18, 19)
    /\ IF Len(s) = 20 THEN s[20] = "Z"
       ELSE s[20] = "." /\ AllDigits(s, 21, 23) /\ s[24] = "Z"

\* new Date(text).getTime(), counted from 2024-01-01T00:00:00.000Z
DateParse(s) ==
    IF ~IsIsoShape(s) THEN NaN
    ELSE
        LET y == DecimalValue(SubSeq(s, 1, 4))
            mo == DecimalValue(SubSeq(s, 6, 7))
            d == DecimalValue(SubSeq(s, 9, 10))
            h == DecimalValue(SubSeq(s, 12, 13))
            mi == DecimalValue(SubSeq(s, 15, 16))
            sec == DecimalValue(SubSeq(s, 18, 19))
            ms == IF Len(s) = 24 THEN DecimalValue(SubSeq(s, 21, 23)) ELSE 0
        IN  IF mo \notin 1..12 \/ d \notin 1..31 \/ h > 23 \/ mi > 59 \/ sec > 59
            THEN NaN
            ELSE Num((DaysFromCivil(y, mo, d) - OriginDay) * msPerDay
                     + ((h * 60 + mi) * 60 + sec) * 1000 + ms)

\* Math.ceil(a / b) for b > 0 (the quotient of two integers below 2^53 is
\* rounded to a double that is an integer only if the quotient is one, as
\* long as the quotient is below 2^27)
Ceil(a, b) == -((-a) \div b)

(***************************************************************************)
(* CaseManagement.getDaysUntilDeadline and isUrgent; clock is the value of *)
(* new Date() read inside getDaysUntilDeadline.                            *)
(***************************************************************************)
\* Math.floor for Math.ceil
getDaysUntilDeadline_Floor(deadlineString, clock) ==
    LET deadline == DateParse(deadlineString)
        diff == IF deadline.nan THEN NaN ELSE Num(deadline.v - clock)
    IN  IF diff.nan THEN NaN ELSE Num(diff.v \div msPerDay)

\* No statement of the try block throws: new Date of an unparseable text
\* is an invalid Date, getTime() of it is NaN, and so are the difference
\* and its Math.ceil.  The catch branch (return 0) is never taken.
getDaysUntilDeadline(deadlineString, clock) ==
    LET deadline == DateParse(deadlineString)
        diff == IF deadline.nan THEN NaN ELSE Num(deadline.v - clock)
    IN  IF diff.nan THEN NaN ELSE Num(Ceil(diff.v, msPerDay))

\* days < 7 for days <= 7
isUrgent_Before7(c, clock) ==
    IF ~Truthy(c.deadline_date) THEN FALSE
    ELSE LET d == getDaysUntilDeadline(c.deadline_date.chars, clock)
         IN  d.v < 7 /\ NumGeq(d, Num(0))

\* the lower bound days >= 0 is left out
isUrgent_NoLowerBound(c, clock) ==
    IF ~Truthy(c.deadline_date) THEN FALSE
    ELSE LET d == getDaysUntilDeadline(c.deadline_date.chars, clock)
         IN  NumLeq(d, Num(7))

isUrgent(c, clock) ==
    IF ~Truthy(c.deadline_date) THEN FALSE
    ELSE LET d == getDaysUntilDeadline(c.deadline_date.chars, clock)
         IN  NumLeq(d, Num(7)) /\ NumGeq(d, Num(0))

(***************************************************************************)
(* Deadlines and clock values of the model.                                *)
(***************************************************************************)
\* hour, minute, second, millisecond
TimesOfDay == {<<0, 0, 0, 0>>, <<0, 0, 0, 1>>, <<12, 0, 0, 0>>, <<23, 59, 59, 999>>}

TimeMs(t) == ((t[1] * 60 + t[2]) * 60 + t[3]) * 1000 + t[4]

\* year, month, day
CalendarDays ==
    {<<2023, 12, d>> : d \in (32 - MaxPastDays)..31}
        \cup {<<2024, 1, d>> : d \in 1..(1 + MaxFutureDays)}

Pad2(n) == <<DigitChar(n \div 10), DigitChar(n % 10)>>

Pad3(n) == <<DigitChar(n \div 100)>> \o Pad2(n % 100)

Pad4(n) == Pad2(n \div 100) \o Pad2(n % 100)

\* YYYY-MM-DDTHH:mm:ss
IsoSeconds(date, t) ==
    Pad4(date[1]) \o <<"-">> \o Pad2(date[2]) \o <<"-">> \o Pad2(date[3])
        \o <<"T">> \o Pad2(t[1]) \o <<":">> \o Pad2(t[2]) \o <<":">> \o Pad2(t[3])

\* YYYY-MM-DDTHH:mm:ss.sssZ, the form of Date.prototype.toISOString
IsoText(date, t) == IsoSeconds(date, t) \o <<".">> \o Pad3(t[4]) \o <<"Z">>

\* YYYY-MM-DDTHH:mm:ssZ
IsoTextShort(date, t) == IsoSeconds(date, t) \o <<"Z">>

UnparseableTexts ==
    {<<"n", "o", "t", "-", "a", "-", "d", "a", "t", "e">>,
     IsoText(<<2024, 13, 1>>, <<0, 0, 0, 0>>)}

DeadlineTexts ==
    {IsoText(d, t) : d \in CalendarDays, t \in TimesOfDay}
        \cup {IsoTextShort(d, <<0, 0, 0, 0>>) : d \in CalendarDays}
        \cup UnparseableTexts

\* LegalCase, with the fields that the urgency reads
Cases ==
    {[id |-> "c1", deadline_date |-> x] :
        x \in {Undefined, Null, Str(<<>>)} \cup {Str(t) : t \in DeadlineTexts}}

ClockValues == {d * msPerDay + TimeMs(t) : d \in 0..MaxClockDays, t \in TimesOfDay}

(***************************************************************************)
(* CaseManagement: loading a case, rendering it, and the passing of time.  *)
(***************************************************************************)
\* fetchCases: the list of cases arrives from the server
fetchCases ==
    /\ case_ = NoCase
    /\ \E c \in Cases : case_' = c
    /\ UNCHANGED <<now, rendered, renderedAt, days, urgent>>
    /\ UNCHANGED <<cnjVars, otherVars>>
    /\ UNCHANGED <<listVars, renderVars>>

\* the render writes the flag into the record of the case
Render_StoresFlag ==
    /\ case_ # NoCase
    /\ rendered' = TRUE
    /\ renderedAt' = now
    /\ urgent' = isUrgent(case_, now)
    /\ days' = IF Truthy(case_.deadline_date)
               THEN getDaysUntilDeadline(case_.deadline_date.chars, now)
               ELSE NotEvaluated
    /\ case_' = [id |-> case_.id, deadline_date |-> case_.deadline_date,
                 urgent |-> isUrgent(case_, now)]
    /\ UNCHANGED now
    /\ UNCHANGED <<cnjVars, otherVars>>
    /\ UNCHANGED <<listVars, renderVars>>

\* one render of the case: the 'Urgente' badge and, for a truthy deadline,
\* the day count of the deadline label
Render ==
    /\ case_ # NoCase
    /\ rendered' = TRUE
    /\ renderedAt' = now
    /\ urgent' = isUrgent(case_, now)
    /\ days' = IF Truthy(case_.deadline_date)
               THEN getDaysUntilDeadline(case_.deadline_date.chars, now)
               ELSE NotEvaluated
    /\ UNCHANGED <<now, case_>>
    /\ UNCHANGED <<cnjVars, otherVars>>
    /\ UNCHANGED <<listVars, renderVars>>

\* the wall clock advances
Tick ==
    /\ \E t \in ClockValues : t > now /\ now' = t
    /\ UNCHANGED <<case_, rendered, renderedAt, days, urgent>>
    /\ UNCHANGED <<cnjVars, otherVars>>
    /\ UNCHANGED <<listVars, renderVars>>

InitUrgency ==
    /\ CnjInit
    /\ OtherInit
    /\ RenderIdle
    /\ now \in ClockValues
    /\ case_ = NoCase
    /\ rendered = FALSE
    /\ renderedAt = now
    /\ days = NotEvaluated
    /\ urgent = FALSE
    /\ ListInit

NextUrgency == fetchCases \/ Render \/ Tick

SpecUrgency == InitUrgency /\ [][NextUrgency]_vars

(***************************************************************************)
(* One render of the case list, evaluation by evaluation.  Every call of   *)
(* isUrgent and of getDaysUntilDeadline reads new Date() itself, so the    *)
(* clock can advance between two evaluations of the same render.           *)
(***************************************************************************)
\* the render has made all its urgency evaluations of the case
RenderDone ==
    \/ renderStep = 4
    \/ renderStep = 2 /\ ~Truthy(case_.deadline_date)

\* cases.filter(isUrgent).length of the 'Casos Urgentes' card; a new render
\* starts here
evalCount ==
    /\ case_ # NoCase
    /\ renderStep = 0 \/ RenderDone
    /\ renderStep' = 1
    /\ countUrgent' = isUrgent(case_, now)
    /\ badgeUrgent' = FALSE
    /\ labelRed' = FALSE
    /\ labelDays' = NotEvaluated
    /\ UNCHANGED <<urgencyVars, listVars>>
    /\ UNCHANGED <<cnjVars, otherVars>>

\* isUrgent(case_) && <Badge>Urgente</Badge>
evalBadge ==
    /\ renderStep = 1
    /\ renderStep' = 2
    /\ badgeUrgent' = isUrgent(case_, now)
    /\ UNCHANGED <<countUrgent, labelRed, labelDays>>
    /\ UNCHANGED <<urgencyVars, listVars>>
    /\ UNCHANGED <<cnjVars, otherVars>>

\* getDaysUntilDeadline(case_.deadline_date) <= 7 ? 'text-red-600' : ...
evalLabelClass ==
    /\ renderStep = 2
    /\ Truthy(case_.deadline_date)
    /\ renderStep' = 3
    /\ labelRed' = NumLeq(getDaysUntilDeadline(case_.deadline_date.chars, now), Num(7))
    /\ UNCHANGED <<countUrgent, badgeUrgent, labelDays>>
    /\ UNCHANGED <<urgencyVars, listVars>>
    /\ UNCHANGED <<cnjVars, otherVars>>

\* ({getDaysUntilDeadline(case_.deadline_date)} dias)
evalLabelDays ==
    /\ renderStep = 3
    /\ renderStep' = 4
    /\ labelDays' = getDaysUntilDeadline(case_.deadline_date.chars, now)
    /\ UNCHANGED <<countUrgent, badgeUrgent, labelRed>>
    /\ UNCHANGED <<urgencyVars, listVars>>
    /\ UNCHANGED <<cnjVars, otherVars>>

NextRender ==
    fetchCases \/ evalCount \/ evalBadge \/ evalLabelClass \/ evalLabelDays \/ Tick

SpecRender == InitUrgency /\ [][NextRender]_vars

(***************************************************************************)
(* CaseManagement: the list of cases and its filters.                      *)
(***************************************************************************)
\* keys of STATUS_LABELS, the options of the status filter after 'all'
STATUS_LABELS == {"active", "pending", "suspended", "closed", "archived"}

\* keys of CASE_TYPES, the options of the type filter after 'all'
CASE_TYPES ==
    {"civil", "criminal", "commercial", "labor", "family", "tax",
     "administrative", "constitutional", "other"}

UpperCase ==
    <<"A", "B", "C", "D", "E", "F", "G", "H", "I", "J", "K", "L", "M",
      "N", "O", "P", "Q", "R", "S", "T", "U", "V", "W", "X", "Y", "Z">>

LowerCase ==
    <<"a", "b", "c", "d", "e", "f", "g", "h", "i", "j", "k", "l", "m",
      "n", "o", "p", "q", "r", "s", "t", "u", "v", "w", "x", "y", "z">>

\* String.prototype.toLowerCase on unaccented letters
toLowerCase(str) ==
    [i \in 1..Len(str) |->
        IF \E k \in 1..Len(UpperCase) : UpperCase[k] = str[i]
        THEN LowerCase[CHOOSE k \in 1..Len(UpperCase) : UpperCase[k] = str[i]]
        ELSE str[i]]

\* String.prototype.includes
includes(str, part) ==
    \E i \in 0..(Len(str) - Len(part)) : SubSeq(str, i + 1, i + Len(part)) = part

\* case_.opposing_party?.toLowerCase().includes(term): undefined, hence
\* falsy, for a case without opposing party
opposingPartyIncludes(c, term) ==
    /\ c.opposing_party.type = "string"
    /\ includes(toLowerCase(c.opposing_party.chars), term)

\* the status filter starts again from the whole list
filterCases_StatusFromCases(list, term, status, type) ==
    LET byStatus == IF status # "all"
                    THEN SelectSeq(list, LAMBDA c : c.status = status)
                    ELSE IF term # <<>>
                    THEN SelectSeq(list, LAMBDA c :
                             \/ includes(toLowerCase(c.title), toLowerCase(term))
                             \/ opposingPartyIncludes(c, toLowerCase(term))
                             \/ includes(toLowerCase(c.id), toLowerCase(term)))
                    ELSE list
    IN  IF type # "all"
        THEN SelectSeq(byStatus, LAMBDA c : c.case_type = type)
        ELSE byStatus

\* filterCases, as a function of the list and of the three filters
filterCases(list, term, status, type) ==
    LET byText == IF term # <<>>
                  THEN SelectSeq(list, LAMBDA c :
                           \/ includes(toLowerCase(c.title), toLowerCase(term))
                           \/ opposingPartyIncludes(c, toLowerCase(term))
                           \/ includes(toLowerCase(c.id), toLowerCase(term)))
                  ELSE list
        byStatus == IF status # "all"
                    THEN SelectSeq(byText, LAMBDA c : c.status = status)
                    ELSE byText
    IN  IF type # "all"
        THEN SelectSeq(byStatus, LAMBDA c : c.case_type = type)
        ELSE byStatus

\* cases kept by the server
Case1 ==
    [id |-> <<"c", "1">>, title |-> <<"A", "b">>, case_type |-> "civil",
     status |-> "active", responsible_lawyer |-> "ana",
     opposing_party |-> Undefined]

Case2 ==
    [id |-> <<"c", "2">>, title |-> <<"B", "c">>, case_type |-> "civil",
     status |-> "active", responsible_lawyer |-> "bia",
     opposing_party |-> Str(<<"A", "b">>)]

Case3 ==
    [id |-> <<"c", "3">>, title |-> <<"C", "a">>, case_type |-> "civil",
     status |-> "active", responsible_lawyer |-> "ana",
     opposing_party |-> Str(<<"b">>)]

Case4 ==
    [id |-> <<"c", "4">>, title |-> <<"a", "B", "c">>, case_type |-> "labor",
     status |-> "pending", responsible_lawyer |-> "bia",
     opposing_party |-> Null]

\* data.cases || [] of the responses to GET /api/v1/legal/cases
LoadedLists ==
    {<<>>, <<Case1, Case2, Case3>>, <<Case4, Case3, Case2, Case1>>, <<Case4, Case1>>}

\* texts typed into the search filter
SearchTerms == {<<>>, <<"a">>, <<"B">>, <<"c", "1">>, <<"b", "c">>, <<"z">>}

\* fetchCases after the await: the response is ok
loadCasesSucceeds ==
    /\ casesLoading
    /\ \E list \in LoadedLists :
           /\ cases' = list
           /\ filteredCases' = filterCases(list, searchTerm, selectedStatus, selectedType)
    /\ casesError' = Null
    /\ casesLoading' = FALSE
    /\ UNCHANGED <<filterVars, formVars>>
    /\ UNCHANGED <<cnjVars, urgencyVars, renderVars, otherVars>>

\* fetchCases after the await: fetch rejects or the response is not ok
loadCasesFails ==
    /\ casesLoading
    /\ casesError' \in {ErrorMessage("Erro ao carregar casos: 500"),
                         ErrorMessage("Failed to fetch")}
    /\ casesLoading' = FALSE
    /\ UNCHANGED <<cases, filteredCases, filterVars, formVars>>
    /\ UNCHANGED <<cnjVars, urgencyVars, renderVars, otherVars>>

\* onChange of the search filter, and the effect that runs filterCases
setSearchTerm(term) ==
    /\ ~casesLoading
    /\ searchTerm' = term
    /\ filteredCases' = filterCases(cases, term, selectedStatus, selectedType)
    /\ UNCHANGED <<cases, casesLoading, casesError, selectedStatus, selectedType, formVars>>
    /\ UNCHANGED <<cnjVars, urgencyVars, renderVars, otherVars>>

\* onChange of the status filter, and the effect that runs filterCases
setSelectedStatus(status) ==
    /\ ~casesLoading
    /\ selectedStatus' = status
    /\ filteredCases' = filterCases(cases, searchTerm, status, selectedType)
    /\ UNCHANGED <<cases, casesLoading, casesError, searchTerm, selectedType, formVars>>
    /\ UNCHANGED <<cnjVars, urgencyVars, renderVars, otherVars>>

\* onChange of the type filter, and the effect that runs filterCases
setSelectedType(type) ==
    /\ ~casesLoading
    /\ selectedType' = type
    /\ filteredCases' = filterCases(cases, searchTerm, selectedStatus, type)
    /\ UNCHANGED <<cases, casesLoading, casesError, searchTerm, selectedStatus, formVars>>
    /\ UNCHANGED <<cnjVars, urgencyVars, renderVars, otherVars>>

InitList ==
    /\ CnjInit
    /\ CaseIdle
    /\ OtherInit

NextFilter ==
    \/ loadCasesSucceeds
    \/ loadCasesFails
    \/ \E term \in SearchTerms : setSearchTerm(term)
    \/ \E status \in {"all"} \cup STATUS_LABELS : setSelectedStatus(status)
    \/ \E type \in {"all"} \cup CASE_TYPES : setSelectedType(type)

\* CaseManagement with its list and filters, without the creation form
SpecFilter == InitList /\ [][NextFilter]_vars

(***************************************************************************)
(* CaseManagement: the creation form and handleCreateCase.                 *)
(***************************************************************************)
\* Date.prototype.getTimezoneOffset of the browser, in minutes (UTC-03:00)
getTimezoneOffset == 180

\* YYYY-MM-DDTHH:mm, the value of a datetime-local input
IsLocalShape(s) ==
    /\ Len(s) = 16
    /\ AllDigits(s, 1, 4) /\ s[5] = "-"
    /\ AllDigits(s, 6, 7) /\ s[8] = "-"
    /\ AllDigits(s, 9, 10) /\ s[11] = "T"
    /\ AllDigits(s, 12, 13) /\ s[14] = ":"
    /\ AllDigits(s, 15, 16)

\* new Date(text).getTime() for a form value: a date-time without offset
\* is read as local time
DateParseLocal(s) ==
    IF ~IsLocalShape(s) THEN DateParse(s)
    ELSE
        LET y == DecimalValue(SubSeq(s, 1, 4))
            mo == DecimalValue(SubSeq(s, 6, 7))
            d == DecimalValue(SubSeq(s, 9, 10))
            h == DecimalValue(SubSeq(s, 12, 13))
            mi == DecimalValue(SubSeq(s, 15, 16))
        IN  IF mo \notin 1..12 \/ d \notin 1..31 \/ h > 23 \/ mi > 59
            THEN NaN
            ELSE Num((DaysFromCivil(y, mo, d) - OriginDay) * msPerDay
                     + (h * 60 + mi + getTimezoneOffset) * 60000)

\* the civil date <<y, m, d>> of a day counted from 1970-01-01
CivilFromDays(n) ==
    LET z == n + 719468
        era == z \div 146097
        doe == z - era * 146097
        yoe == (doe - doe \div 1460 + doe \div 36524 - doe \div 146096) \div 365
        doy == doe - (365 * yoe + yoe \div 4 - yoe \div 100)
        mp == (5 * doy + 2) \div 153
        d == doy - (153 * mp + 2) \div 5 + 1
        m == IF mp < 10 THEN mp + 3 ELSE mp - 9
    IN  <<IF m <= 2 THEN yoe + era * 400 + 1 ELSE yoe + era * 400, m, d>>

\* what toISOString throws for an invalid date
RangeError == [type |-> "throw", text |-> "Invalid time value"]

\* Date.prototype.toISOString
toISOString(t) ==
    IF t.nan THEN RangeError
    ELSE
        LET day == t.v \div msPerDay
            ms == t.v % msPerDay
        IN  Str(IsoText(CivilFromDays(day + OriginDay),
                        <<ms \div 3600000, (ms \div 60000) % 60,
                          (ms \div 1000) % 60, ms % 1000>>))

\* text || null
orNull(text) == IF text # <<>> THEN Str(text) ELSE Null

\* text ? new Date(text).toISOString() : null
dateOrNull(text) == IF text # <<>> THEN toISOString(DateParseLocal(text)) ELSE Null

\* the dates of the form are sent as they were typed
createCaseBody_RawDates(form) ==
    [title |-> form.title, description |-> form.description,
     case_type |-> form.case_type, client_id |-> orNull(form.client_id),
     opposing_party |-> orNull(form.opposing_party),
     court_date |-> Str(form.court_date),
     deadline_date |-> Str(form.deadline_date)]

\* the object given to JSON.stringify in handleCreateCase
createCaseBody(form) ==
    [title |-> form.title, description |-> form.description,
     case_type |-> form.case_type, client_id |-> orNull(form.client_id),
     opposing_party |-> orNull(form.opposing_party),
     court_date |-> dateOrNull(form.court_date),
     deadline_date |-> dateOrNull(form.deadline_date)]

\* building the body throws
Throws(body) == body.court_date.type = "throw" \/ body.deadline_date.type = "throw"

\* values typed into the form; description, client_id and opposing_party
\* are left empty
FormTitles == {<<>>, <<"N", "o", "v", "o">>}

FormTypes == {"civil", "labor"}

FormCourtDates == {<<>>, <<"2", "0", "2", "4", "-", "0", "1", "-", "1", "0", "T", "0", "9", ":", "3", "0">>}

FormDeadlines ==
    {<<>>,
     <<"2", "0", "2", "3", "-", "1", "2", "-", "3", "1", "T", "2", "2", ":", "1", "5">>,
     <<"a", "m", "a", "n", "h", "a">>}

\* the cases of the list that were created in this run
CreatedCount == Cardinality({k \in 1..Len(cases) : cases[k].id[1] = "n"})

\* the case the server answers a creation with: it assigns the id, the
\* status and the lawyer
CreatedCase(body) ==
    [id |-> <<"n", DigitChar(CreatedCount + 1)>>, title |-> body.title,
     case_type |-> body.case_type, status |-> "active",
     responsible_lawyer |-> "ana", opposing_party |-> body.opposing_party]

\* onClick of 'Novo Caso'
openNewCaseForm ==
    /\ ~casesLoading
    /\ ~showNewCaseForm
    /\ showNewCaseForm' = TRUE
    /\ UNCHANGED <<cases, filteredCases, casesLoading, casesError, filterVars,
                   isSubmitting, newCase, pendingCreate>>
    /\ UNCHANGED <<cnjVars, urgencyVars, renderVars, otherVars>>

\* onClick of 'Cancelar'
cancelNewCaseForm ==
    /\ showNewCaseForm
    /\ showNewCaseForm' = FALSE
    /\ UNCHANGED <<cases, filteredCases, casesLoading, casesError, filterVars,
                   isSubmitting, newCase, pendingCreate>>
    /\ UNCHANGED <<cnjVars, urgencyVars, renderVars, otherVars>>

\* onChange of a form field: setNewCase(prev => ({ ...prev, [field]: v }))
setNewCase(field, v) ==
    /\ showNewCaseForm
    /\ newCase' = [newCase EXCEPT ![field] = v]
    /\ UNCHANGED <<cases, filteredCases, casesLoading, casesError, filterVars,
                   showNewCaseForm, isSubmitting, pendingCreate>>
    /\ UNCHANGED <<cnjVars, urgencyVars, renderVars, otherVars>>

ChangeForm ==
    \/ \E v \in FormTitles : setNewCase("title", v)
    \/ \E v \in FormTypes : setNewCase("case_type", v)
    \/ \E v \in FormCourtDates : setNewCase("court_date", v)
    \/ \E v \in FormDeadlines : setNewCase("deadline_date", v)

\* onSubmit of the form, up to the await: the title is required, the
\* submit button is disabled while a creation is in flight; an exception
\* raised while the body is built is caught before any request is sent
handleCreateCase ==
    /\ showNewCaseForm
    /\ ~isSubmitting
    /\ newCase.title # <<>>
    /\ CreatedCount < MaxCreated
    /\ LET body == createCaseBody(newCase)
       IN  IF Throws(body)
           THEN /\ casesError' = ErrorMessage(RangeError.text)
                /\ isSubmitting' = FALSE
                /\ pendingCreate' = pendingCreate
           ELSE /\ casesError' = casesError
                /\ isSubmitting' = TRUE
                /\ pendingCreate' = [type |-> "request", body |-> body]
    /\ UNCHANGED <<cases, filteredCases, casesLoading, filterVars,
                   showNewCaseForm, newCase>>
    /\ UNCHANGED <<cnjVars, urgencyVars, renderVars, otherVars>>

\* the created case replaces the list
createCaseSucceeds_ReplacesList ==
    /\ pendingCreate.type = "request"
    /\ cases' = <<CreatedCase(pendingCreate.body)>>
    /\ filteredCases' = filterCases(cases', searchTerm, selectedStatus, selectedType)
    /\ showNewCaseForm' = FALSE
    /\ newCase' = EmptyForm
    /\ isSubmitting' = FALSE
    /\ pendingCreate' = Null
    /\ UNCHANGED <<casesLoading, casesError, filterVars>>
    /\ UNCHANGED <<cnjVars, urgencyVars, renderVars, otherVars>>

\* handleCreateCase after the await: the response is ok; the effect runs
\* filterCases on the new list
createCaseSucceeds ==
    /\ pendingCreate.type = "request"
    /\ cases' = <<CreatedCase(pendingCreate.body)>> \o cases
    /\ filteredCases' = filterCases(cases', searchTerm, selectedStatus, selectedType)
    /\ showNewCaseForm' = FALSE
    /\ newCase' = EmptyForm
    /\ isSubmitting' = FALSE
    /\ pendingCreate' = Null
    /\ UNCHANGED <<casesLoading, casesError, filterVars>>
    /\ UNCHANGED <<cnjVars, urgencyVars, renderVars, otherVars>>

\* handleCreateCase after the await: fetch rejects or the response is not ok
createCaseFails ==
    /\ pendingCreate.type = "request"
    /\ casesError' \in {ErrorMessage("Erro ao criar caso: 422"),
                       ErrorMessage("Failed to fetch")}
    /\ isSubmitting' = FALSE
    /\ pendingCreate' = Null
    /\ UNCHANGED <<cases, filteredCases, casesLoading, filterVars,
                   showNewCaseForm, newCase>>
    /\ UNCHANGED <<cnjVars, urgencyVars, renderVars, otherVars>>

NextCreate ==
    \/ loadCasesSucceeds
    \/ loadCasesFails
    \/ openNewCaseForm
    \/ cancelNewCaseForm
    \/ ChangeForm
    \/ handleCreateCase
    \/ createCaseSucceeds
    \/ createCaseFails
    \/ \E status \in {"all", "pending"} : setSelectedStatus(status)
    \/ \E term \in {<<>>, <<"n">>} : setSearchTerm(term)

\* CaseManagement with its creation form
SpecCreate == InitList /\ [][NextCreate]_vars

InitFormat == CnjInit /\ CaseIdle /\ OtherInit

(***************************************************************************)
(* Home, MarketData and AccountInfo: periodic re-fetch.  A timer is        *)
(* modelled by its firings: the timer of a mounted component can fire at   *)
(* any moment (every 30 s, 2 s and 5 s in the source) and a response can   *)
(* take any time.  A run of fetchAccountData holds two requests, a run of  *)
(* checkApiStatus or fetchMarketData one.                                  *)
(***************************************************************************)
\* the tabs of Dashboard
Tabs == {"cases", "cnj", "documents", "market", "trading", "account"}

TabOf(p) == IF p = "MarketData" THEN "market" ELSE "account"

\* p is mounted when Home shows st and Dashboard the tab tab
MountedIn(p, st, tab) == p = "Home" \/ (st = "connected" /\ tab = TabOf(p))

Mounted(p) == MountedIn(p, apiStatus, activeTab)

\* runs of p that are not resolved yet
Unresolved(p) == inFlight[p] + orphans[p]

\* the runs of the mounted instances once Home shows st and Dashboard tab:
\* an instance that mounts starts its first run
RunsAfter(st, tab, runs) ==
    [p \in Pollers |->
        IF MountedIn(p, st, tab) /\ ~Mounted(p) THEN 1
        ELSE IF ~MountedIn(p, st, tab) THEN 0
        ELSE runs[p]]

\* the runs of an instance that unmounts go on without it
OrphansAfter(st, tab) ==
    [p \in Pollers |->
        IF Mounted(p) /\ ~MountedIn(p, st, tab) THEN orphans[p] + inFlight[p]
        ELSE orphans[p]]

\* the state of an instance that mounts or unmounts is the initial one
Remount(st, tab) ==
    /\ pollLoading' = [p \in TabPollers |->
           IF Mounted(p) /\ MountedIn(p, st, tab) THEN pollLoading[p] ELSE TRUE]
    /\ pollError' = [p \in TabPollers |->
           IF Mounted(p) /\ MountedIn(p, st, tab) THEN pollError[p] ELSE Null]
    /\ pollData' = [p \in TabPollers |->
           IF Mounted(p) /\ MountedIn(p, st, tab) THEN pollData[p] ELSE FALSE]
    /\ orphans' = OrphansAfter(st, tab)

\* the timer skips a firing while a run is unresolved
timerTick_Backpressure(p) ==
    /\ Mounted(p)
    /\ Unresolved(p) < MaxInFlight
    /\ inFlight' = IF inFlight[p] > 0 THEN inFlight
                   ELSE [inFlight EXCEPT ![p] = @ + 1]
    /\ firedTimer' = p
    /\ UNCHANGED <<apiStatus, isConnected, activeTab, orphans, pollLoading,
                   pollError, pollData, lastHealth>>
    /\ UNCHANGED <<cnjVars, caseVars, lookupVars, uploadVars, tradeVars>>

\* a firing of setInterval(checkApiStatus | fetchMarketData |
\* fetchAccountData): the function runs up to its await
timerTick(p) ==
    /\ Mounted(p)
    /\ Unresolved(p) < MaxInFlight
    /\ inFlight' = [inFlight EXCEPT ![p] = @ + 1]
    /\ firedTimer' = p
    /\ UNCHANGED <<apiStatus, isConnected, activeTab, orphans, pollLoading,
                   pollError, pollData, lastHealth>>
    /\ UNCHANGED <<cnjVars, caseVars, lookupVars, uploadVars, tradeVars>>

\* a failed check leaves a page that shows 'connected' as it is
healthResponds_StickyConnected(ok) ==
    /\ inFlight["Home"] > 0
    /\ LET st == IF ok \/ apiStatus = "connected" THEN "connected" ELSE "error"
           tab == IF apiStatus = "connected" THEN activeTab ELSE "cases"
       IN  /\ apiStatus' = st
           /\ activeTab' = tab
           /\ inFlight' = RunsAfter(st, tab, [inFlight EXCEPT !["Home"] = @ - 1])
           /\ Remount(st, tab)
    /\ isConnected' = (isConnected \/ ok)
    /\ firedTimer' = "none"
    /\ lastHealth' = IF ok THEN "ok" ELSE "failed"
    /\ UNCHANGED <<cnjVars, caseVars, lookupVars, uploadVars, tradeVars>>

\* checkApiStatus after the await; Dashboard is mounted, with its first
\* tab, exactly while Home shows 'connected'
healthResponds(ok) ==
    /\ inFlight["Home"] > 0
    /\ LET st == IF ok THEN "connected" ELSE "error"
           tab == IF ok /\ apiStatus = "connected" THEN activeTab ELSE "cases"
       IN  /\ apiStatus' = st
           /\ activeTab' = tab
           /\ inFlight' = RunsAfter(st, tab, [inFlight EXCEPT !["Home"] = @ - 1])
           /\ Remount(st, tab)
    /\ isConnected' = (isConnected \/ ok)
    /\ firedTimer' = "none"
    /\ lastHealth' = IF ok THEN "ok" ELSE "failed"
    /\ UNCHANGED <<cnjVars, caseVars, lookupVars, uploadVars, tradeVars>>

\* fetchMarketData or fetchAccountData after its awaits, in a mounted
\* instance
dataResponds(p, ok) ==
    /\ inFlight[p] > 0
    /\ inFlight' = [inFlight EXCEPT ![p] = @ - 1]
    /\ pollData' = [pollData EXCEPT ![p] = @ \/ ok]
    /\ pollError' = [pollError EXCEPT ![p] =
           IF ok THEN Null
           ELSE IF p = "MarketData"
                THEN ErrorMessage("Erro ao buscar dados de mercado")
                ELSE ErrorMessage("Erro ao buscar dados da conta")]
    /\ pollLoading' = [pollLoading EXCEPT ![p] = FALSE]
    /\ firedTimer' = "none"
    /\ UNCHANGED <<apiStatus, isConnected, activeTab, orphans, lastHealth>>
    /\ UNCHANGED <<cnjVars, caseVars, lookupVars, uploadVars, tradeVars>>

\* a run ends in an instance that is no longer mounted: its state updates
\* have no effect
orphanResponds(p) ==
    /\ orphans[p] > 0
    /\ orphans' = [orphans EXCEPT ![p] = @ - 1]
    /\ firedTimer' = "none"
    /\ UNCHANGED <<apiStatus, isConnected, activeTab, inFlight, pollLoading,
                   pollError, pollData, lastHealth>>
    /\ UNCHANGED <<cnjVars, caseVars, lookupVars, uploadVars, tradeVars>>

\* onClick of a tab of Dashboard
setActiveTab(tab) ==
    /\ apiStatus = "connected"
    /\ tab # activeTab
    /\ \A p \in TabPollers : tab = TabOf(p) => Unresolved(p) < MaxInFlight
    /\ activeTab' = tab
    /\ inFlight' = RunsAfter(apiStatus, tab, inFlight)
    /\ Remount(apiStatus, tab)
    /\ firedTimer' = "none"
    /\ UNCHANGED <<apiStatus, isConnected, lastHealth>>
    /\ UNCHANGED <<cnjVars, caseVars, lookupVars, uploadVars, tradeVars>>

\* onClick of 'Tentar Novamente': window.location.reload() drops every run
\* and mounts Home anew (the other components are in their initial state
\* whenever Home shows 'error' in this specification)
reloadPage ==
    /\ apiStatus = "error"
    /\ apiStatus' = "checking"
    /\ isConnected' = FALSE
    /\ activeTab' = "cases"
    /\ inFlight' = [p \in Pollers |-> IF p = "Home" THEN 1 ELSE 0]
    /\ orphans' = [p \in Pollers |-> 0]
    /\ pollLoading' = [p \in TabPollers |-> TRUE]
    /\ pollError' = [p \in TabPollers |-> Null]
    /\ pollData' = [p \in TabPollers |-> FALSE]
    /\ firedTimer' = "none"
    /\ lastHealth' = "none"
    /\ UNCHANGED <<cnjVars, caseVars, lookupVars, uploadVars, tradeVars>>

NextPolling ==
    \/ \E p \in Pollers : timerTick(p)
    \/ \E ok \in BOOLEAN : healthResponds(ok)
    \/ \E p \in TabPollers, ok \in BOOLEAN : dataResponds(p, ok)
    \/ \E p \in TabPollers : orphanResponds(p)
    \/ \E tab \in Tabs : setActiveTab(tab)
    \/ reloadPage

\* Home with the Dashboard below it
SpecPolling == InitFormat /\ [][NextPolling]_vars

NextFormat == Paste \/ TypeKey \/ Backspace

SpecFormat == InitFormat /\ [][NextFormat]_vars

\* CNJSearch with its search: input events and searches interleave
NextSearch == Paste \/ TypeKey \/ Backspace \/ handleSearch \/ searchSucceeds \/ searchFails

SpecSearch == InitFormat /\ [][NextSearch]_vars

\* CNJSearch when every request that was sent is answered or fails
SpecSearchFair == SpecSearch /\ WF_vars(searchSucceeds \/ searchFails)

(***************************************************************************)
(* Search: the CNJ lookup (handleCnjSearch).                               *)
(***************************************************************************)
\* const TRIBUNAL_ALIAS of handleCnjSearch
TRIBUNAL_ALIAS == "api_publica_trf1"

\* process numbers typed into the field: one of the federal court of the
\* 1st region (J.TR = 4.01), one of the state court of Sao Paulo (8.26),
\* one of the labour court of the 2nd region (5.02)
CnjNumbers ==
    {formatProcessNumber(<<"0", "0", "0", "0", "0", "0", "1", "1", "1", "2",
                           "0", "2", "4", "4", "0", "1", "0", "0", "0", "0">>),
     formatProcessNumber(<<"0", "0", "0", "0", "0", "0", "2", "2", "2", "2",
                           "0", "2", "4", "8", "2", "6", "0", "1", "0", "0">>),
     formatProcessNumber(<<"0", "0", "0", "0", "0", "0", "3", "3", "3", "2",
                           "0", "2", "4", "5", "0", "2", "0", "0", "0", "1">>)}

\* texts typed into the field
CnjTerms == {<<>>, <<" ">>} \cup CnjNumbers

\* onChange of the field
setCnjSearchTerm(v) ==
    /\ cnjSearchTerm' = v
    /\ UNCHANGED <<cnjLoading, cnjError, processoDetalhado, selectedCase, cnjLookups>>
    /\ UNCHANGED <<cnjVars, caseVars, pollVars, uploadVars, tradeVars>>

\* onClick of 'Buscar Processo' (disabled while a lookup runs), up to the
\* await: searchProcessoCNJ(TRIBUNAL_ALIAS, cnjSearchTerm, CNJ_API_KEY)
handleCnjSearch ==
    /\ ~cnjLoading
    /\ trim(cnjSearchTerm) # <<>>
    /\ cnjLoading' = TRUE
    /\ cnjError' = Null
    /\ processoDetalhado' = Null
    /\ selectedCase' = Null
    /\ cnjLookups' = cnjLookups \cup
           {[tribunalAlias |-> TRIBUNAL_ALIAS, numeroProcesso |-> cnjSearchTerm]}
    /\ UNCHANGED cnjSearchTerm
    /\ UNCHANGED <<cnjVars, caseVars, pollVars, uploadVars, tradeVars>>

\* handleCnjSearch after the await, without error
cnjLookupSucceeds ==
    /\ cnjLoading
    /\ processoDetalhado' = [type |-> "processo"]
    /\ cnjLoading' = FALSE
    /\ UNCHANGED <<cnjSearchTerm, cnjError, selectedCase, cnjLookups>>
    /\ UNCHANGED <<cnjVars, caseVars, pollVars, uploadVars, tradeVars>>

\* handleCnjSearch after the await, with an error
cnjLookupFails ==
    /\ cnjLoading
    /\ cnjError' = ErrorMessage("Erro ao consultar processo.")
    /\ cnjLoading' = FALSE
    /\ UNCHANGED <<cnjSearchTerm, processoDetalhado, selectedCase, cnjLookups>>
    /\ UNCHANGED <<cnjVars, caseVars, pollVars, uploadVars, tradeVars>>

\* onClick of a case of another search
selectCase ==
    /\ selectedCase = Null
    /\ selectedCase' = [type |-> "caso"]
    /\ UNCHANGED <<cnjSearchTerm, cnjLoading, cnjError, processoDetalhado, cnjLookups>>
    /\ UNCHANGED <<cnjVars, caseVars, pollVars, uploadVars, tradeVars>>

\* clearAll, as far as the CNJ lookup goes
clearAll ==
    /\ cnjSearchTerm' = <<>>
    /\ processoDetalhado' = Null
    /\ cnjError' = Null
    /\ selectedCase' = Null
    /\ UNCHANGED <<cnjLoading, cnjLookups>>
    /\ UNCHANGED <<cnjVars, caseVars, pollVars, uploadVars, tradeVars>>

NextLookup ==
    \/ \E v \in CnjTerms : setCnjSearchTerm(v)
    \/ handleCnjSearch
    \/ cnjLookupSucceeds
    \/ cnjLookupFails
    \/ selectCase
    \/ clearAll

SpecLookup == InitFormat /\ [][NextLookup]_vars

(***************************************************************************)
(* DocumentUpload: validateFile and handleFiles.  generateId is modelled   *)
(* by a counter (two random ids are taken to differ), and a run of         *)
(* handleFiles starts only when the previous one has ended.                *)
(***************************************************************************)
ALLOWED_TYPES ==
    {<<".", "p", "d", "f">>, <<".", "d", "o", "c", "x">>, <<".", "t", "x", "t">>,
     <<".", "p", "n", "g">>, <<".", "j", "p", "g">>, <<".", "j", "p", "e", "g">>,
     <<".", "t", "i", "f", "f">>}

MAX_FILE_SIZE == 50 * 1024 * 1024

\* name.split('.').pop(): the text after the last dot, the whole name when
\* it has no dot
lastSegment(name) ==
    LET dots == {i \in 1..Len(name) : name[i] = "."}
    IN  IF dots = {} THEN name
        ELSE SubSeq(name, (CHOOSE i \in dots : \A j \in dots : j <= i) + 1, Len(name))

TypeNotAllowed ==
    ErrorMessage("Tipo de arquivo nao permitido. Tipos aceitos: .pdf, .docx, .txt, .png, .jpg, .jpeg, .tiff")

FileTooLarge == ErrorMessage("Arquivo muito grande. Tamanho maximo: 50.0MB")

\* validateFile: the error message, or null
validateFile(file) ==
    LET extension == <<".">> \o toLowerCase(lastSegment(file.name))
    IN  IF extension \notin ALLOWED_TYPES THEN TypeNotAllowed
        ELSE IF file.size > MAX_FILE_SIZE THEN FileTooLarge
        ELSE Null

\* files dropped on the page
Files ==
    {[name |-> <<"a", ".", "p", "d", "f">>, size |-> MAX_FILE_SIZE],
     [name |-> <<"a", ".", "p", "d", "f">>, size |-> MAX_FILE_SIZE + 1],
     [name |-> <<"B", ".", "P", "D", "F">>, size |-> 1],
     [name |-> <<"p", "d", "f">>, size |-> 1],
     [name |-> <<"a", ".", "p", "d", "f", ".", "e", "x", "e">>, size |-> 1],
     [name |-> <<"a", ".">>, size |-> 0]}

\* the file lists of the drops
FileLists ==
    {<<f>> : f \in Files}
        \cup {<<f, g>> : f \in {file \in Files : file.size = 1}, g \in Files}

\* the entry of a file that validateFile rejects
errorFile(file, id, validationError) ==
    [file |-> file, id |-> id, status |-> "error", result |-> Undefined,
     error |-> validationError, progress |-> 0]

\* the entry of a file that validateFile accepts
uploadingFile(file, id) ==
    [file |-> file, id |-> id, status |-> "uploading", result |-> Undefined,
     error |-> Undefined, progress |-> 0]

\* the for loop of handleFiles from the file it looks at next up to its
\* next await, or to its end: rejected files are entered and skipped
RECURSIVE handleFilesFrom(_, _, _)
handleFilesFrom(files, list, id) ==
    IF files = <<>>
    THEN [list |-> list, queue |-> <<>>, current |-> NoUpload, nextId |-> id]
    ELSE IF validateFile(Head(files)) # Null
    THEN handleFilesFrom(Tail(files),
                         Append(list, errorFile(Head(files), id, validateFile(Head(files)))),
                         id + 1)
    ELSE [list |-> Append(list, uploadingFile(Head(files), id)),
          queue |-> Tail(files), current |-> [id |-> id, progress |-> 0],
          nextId |-> id + 1]

\* an entry is added when no entry has the id
updateEntry_Upsert(list, id, fields) ==
    IF \E k \in 1..Len(list) : list[k].id = id
    THEN [k \in 1..Len(list) |->
            IF list[k].id = id
            THEN [x \in DOMAIN list[k] |->
                     IF x \in DOMAIN fields THEN fields[x] ELSE list[k][x]]
            ELSE list[k]]
    ELSE LET base == uploadingFile(CHOOSE f \in Files : TRUE, id)
         IN  Append(list, [x \in DOMAIN base |->
                              IF x \in DOMAIN fields THEN fields[x] ELSE base[x]])

\* prev.map(f => f.id === fileId ? { ...f, ...fields } : f)
updateEntry(list, id, fields) ==
    [k \in 1..Len(list) |->
        IF list[k].id = id
        THEN [x \in DOMAIN list[k] |->
                 IF x \in DOMAIN fields THEN fields[x] ELSE list[k][x]]
        ELSE list[k]]

handleDragOver ==
    /\ isDragOver' = TRUE
    /\ UNCHANGED <<uploadedFiles, fileQueue, currentUpload, nextFileId, uploadRequests>>
    /\ UNCHANGED <<cnjVars, caseVars, pollVars, lookupVars, tradeVars>>

handleDragLeave ==
    /\ isDragOver' = FALSE
    /\ UNCHANGED <<uploadedFiles, fileQueue, currentUpload, nextFileId, uploadRequests>>
    /\ UNCHANGED <<cnjVars, caseVars, pollVars, lookupVars, tradeVars>>

\* handleDrop: handleFiles runs up to its first await
handleDrop(files) ==
    /\ currentUpload = NoUpload
    /\ nextFileId + Len(files) - 1 <= MaxFiles
    /\ isDragOver' = FALSE
    /\ LET run == handleFilesFrom(files, uploadedFiles, nextFileId)
       IN  /\ uploadedFiles' = run.list
           /\ fileQueue' = run.queue
           /\ currentUpload' = run.current
           /\ nextFileId' = run.nextId
    /\ UNCHANGED uploadRequests
    /\ UNCHANGED <<cnjVars, caseVars, pollVars, lookupVars, tradeVars>>

\* handleFiles after a timeout of the progress loop; after the last one
\* the entry is 'processing' and uploadFile sends the file
progressTimeout ==
    /\ currentUpload # NoUpload
    /\ currentUpload.progress <= 100
    /\ IF currentUpload.progress < 100
       THEN /\ uploadedFiles' = updateEntry(uploadedFiles, currentUpload.id,
                    [progress |-> currentUpload.progress])
            /\ UNCHANGED uploadRequests
       ELSE /\ uploadedFiles' = updateEntry(uploadedFiles, currentUpload.id,
                    [progress |-> 100, status |-> "processing"])
            /\ uploadRequests' = uploadRequests \cup {currentUpload.id}
    /\ currentUpload' = [currentUpload EXCEPT !.progress = @ + 20]
    /\ UNCHANGED <<isDragOver, fileQueue, nextFileId>>
    /\ UNCHANGED <<cnjVars, caseVars, pollVars, lookupVars, tradeVars>>

\* DocumentUploadResponse with success: true
UploadResponse == [type |-> "response", success |-> TRUE]

\* outcomes of uploadFile: the result reports success, the result reports
\* errors, the call throws
UploadOutcomes ==
    {[status |-> "success", result |-> UploadResponse, error |-> Undefined],
     [status |-> "error", result |-> Undefined, error |-> ErrorMessage("OCR failed")],
     [status |-> "error", error |-> ErrorMessage("Erro 500")]}

\* the result is stored whatever it reports
uploadResponds_StoresResult(outcome) ==
    /\ currentUpload # NoUpload
    /\ currentUpload.progress > 100
    /\ LET updated == updateEntry(uploadedFiles, currentUpload.id,
                           [status |-> outcome.status, result |-> UploadResponse,
                            error |-> outcome.error])
           run == handleFilesFrom(fileQueue, updated, nextFileId)
       IN  /\ uploadedFiles' = run.list
           /\ fileQueue' = run.queue
           /\ currentUpload' = run.current
           /\ nextFileId' = run.nextId
    /\ UNCHANGED <<isDragOver, uploadRequests>>
    /\ UNCHANGED <<cnjVars, caseVars, pollVars, lookupVars, tradeVars>>

\* a file that fails ends the loop
uploadResponds_StopsOnError(outcome) ==
    /\ currentUpload # NoUpload
    /\ currentUpload.progress > 100
    /\ LET updated == updateEntry(uploadedFiles, currentUpload.id, outcome)
           run == IF outcome.status = "error"
                  THEN handleFilesFrom(<<>>, updated, nextFileId)
                  ELSE handleFilesFrom(fileQueue, updated, nextFileId)
       IN  /\ uploadedFiles' = run.list
           /\ fileQueue' = run.queue
           /\ currentUpload' = run.current
           /\ nextFileId' = run.nextId
    /\ UNCHANGED <<isDragOver, uploadRequests>>
    /\ UNCHANGED <<cnjVars, caseVars, pollVars, lookupVars, tradeVars>>

\* handleFiles after the await of uploadFile, and on through the loop
uploadResponds(outcome) ==
    /\ currentUpload # NoUpload
    /\ currentUpload.progress > 100
    /\ LET updated == updateEntry(uploadedFiles, currentUpload.id, outcome)
           run == handleFilesFrom(fileQueue, updated, nextFileId)
       IN  /\ uploadedFiles' = run.list
           /\ fileQueue' = run.queue
           /\ currentUpload' = run.current
           /\ nextFileId' = run.nextId
    /\ UNCHANGED <<isDragOver, uploadRequests>>
    /\ UNCHANGED <<cnjVars, caseVars, pollVars, lookupVars, tradeVars>>

\* onClick of 'Remover'
removeFile(id) ==
    /\ \E k \in 1..Len(uploadedFiles) : uploadedFiles[k].id = id
    /\ uploadedFiles' = SelectSeq(uploadedFiles, LAMBDA f : f.id # id)
    /\ UNCHANGED <<isDragOver, fileQueue, currentUpload, nextFileId, uploadRequests>>
    /\ UNCHANGED <<cnjVars, caseVars, pollVars, lookupVars, tradeVars>>

NextUpload ==
    \/ handleDragOver
    \/ handleDragLeave
    \/ \E files \in FileLists : handleDrop(files)
    \/ progressTimeout
    \/ \E outcome \in UploadOutcomes : uploadResponds(outcome)
    \/ \E id \in 1..MaxFiles : removeFile(id)

SpecUpload == InitFormat /\ [][NextUpload]_vars

\* DocumentUpload when every timeout fires and every request settles
SpecUploadFair ==
    /\ SpecUpload
    /\ WF_vars(progressTimeout)
    /\ WF_vars(\E outcome \in UploadOutcomes : uploadResponds(outcome))

(***************************************************************************)
(* TradingPanel: the order form and handleSubmit.  The handlers of a       *)
(* render see the formData of that render; the running handleSubmit keeps  *)
(* the one of the render in which the form was submitted.                  *)
(***************************************************************************)
\* values that the fields of the form take in the model
OrderValues ==
    [symbol |-> {"WINFUT", "PETR4"}, side |-> {"BUY", "SELL"},
     quantity |-> {"1", "2"}, price |-> {"", "10.5"}, stop_loss |-> {"", "9"},
     take_profit |-> {""}, comment |-> {"", "x"}]

\* the four fields that the reset of the form empties
ResetForm(form) ==
    [form EXCEPT !.price = "", !.stop_loss = "", !.take_profit = "", !.comment = ""]

\* onChange of a field: setFormData({ ...formData, [name]: value })
TradingPanel_handleInputChange(name, v) ==
    /\ formData[name] # v
    /\ formData' = [formData EXCEPT ![name] = v]
    /\ UNCHANGED <<tradeSubmitting, message, pendingTrade>>
    /\ UNCHANGED <<cnjVars, caseVars, pollVars, lookupVars, uploadVars>>

\* handleSubmit up to the await of fetch; the submit button is disabled
\* while isSubmitting
handleSubmit ==
    /\ ~tradeSubmitting
    /\ tradeSubmitting' = TRUE
    /\ message' = Null
    /\ pendingTrade' = [type |-> "request", formData |-> formData]
    /\ UNCHANGED formData
    /\ UNCHANGED <<cnjVars, caseVars, pollVars, lookupVars, uploadVars>>

\* handleSubmit after the await: the response is ok; the reset spreads the
\* formData that handleSubmit closed over
tradeSucceeds ==
    /\ pendingTrade.type = "request"
    /\ message' = [type |-> "success", text |-> "Trade executado com sucesso! ID: 7"]
    /\ formData' = ResetForm(pendingTrade.formData)
    /\ tradeSubmitting' = FALSE
    /\ pendingTrade' = Null
    /\ UNCHANGED <<cnjVars, caseVars, pollVars, lookupVars, uploadVars>>

\* handleSubmit after the await: fetch rejects or the response is not ok
tradeFails ==
    /\ pendingTrade.type = "request"
    /\ \E text \in {"Erro ao executar trade", "Failed to fetch"} :
           message' = [type |-> "error", text |-> text]
    /\ tradeSubmitting' = FALSE
    /\ pendingTrade' = Null
    /\ UNCHANGED formData
    /\ UNCHANGED <<cnjVars, caseVars, pollVars, lookupVars, uploadVars>>

NextTrade ==
    \/ \E name \in DOMAIN OrderValues : \E v \in OrderValues[name] :
           TradingPanel_handleInputChange(name, v)
    \/ handleSubmit
    \/ tradeSucceeds
    \/ tradeFails

SpecTrade == InitFormat /\ [][NextTrade]_vars

(***************************************************************************)
(* Properties of the CNJ mask.  In every state of SpecFormat, value is the *)
(* text of the last change event and processNumber the mask rendered for   *)
(* it.                                                                     *)
(***************************************************************************)
IsDigitString(s) == \A i \in 1..Len(s) : s[i] \in DigitChars

DigitsOf(s) == SelectSeq(s, LAMBDA c : c \in DigitChars)

IsSeparator(c) == c \in {"-", "."}

Take(s, n) == SubSeq(s, 1, Min(n, Len(s)))

\* the boundary table of the groups 7-2-4-1-2-4: a separator follows the
\* 7th, 9th, 13th, 14th and 16th digit
Boundaries == {7, 9, 13, 14, 16}

SeparatorAfter(b) == IF b = 7 THEN "-" ELSE "."

SeparatorsBefore(b) == Cardinality({x \in Boundaries : x < b})

\* out holds the digits d in order and, at each boundary that d goes
\* beyond, the separator of the table, and nothing else
MaskedAsTable(d, out) ==
    /\ DigitsOf(out) = d
    /\ Len(out) = Len(d) + Cardinality({b \in Boundaries : Len(d) > b})
    /\ \A b \in Boundaries :
           Len(d) > b => out[b + SeparatorsBefore(b) + 1] = SeparatorAfter(b)

\* NNNNNNN-DD.AAAA.J.TR.OOOO of 20 digits
FullMask(d) ==
    SubSeq(d, 1, 7) \o <<"-">> \o SubSeq(d, 8, 9) \o <<".">>
        \o SubSeq(d, 10, 13) \o <<".">> \o SubSeq(d, 14, 14) \o <<".">>
        \o SubSeq(d, 15, 16) \o <<".">> \o SubSeq(d, 17, 20)

\* C1 as stated: for a digit string of ANY length n the mask holds exactly
\* its n digits in order, with the separators of the boundary table.
\* (Refuted by 21 digits: only 20 are rendered.)
C1_AnyLength == IsDigitString(value) => MaskedAsTable(value, processNumber)

\* C1 amended: for a digit string of length n <= 20 the mask holds exactly
\* its n digits in order and a separator exactly at each boundary of the
\* 7-2-4-1-2-4 table that n exceeds ('-' after the 7th digit, '.' after the
\* 9th, 13th, 14th and 16th); a longer digit string is masked as its first
\* 20 digits.
C1_MaskOfFirstTwenty ==
    IsDigitString(value) => MaskedAsTable(Take(value, 20), processNumber)

C1_Witness ==
    /\ IsDigitString(value)
    /\ Len(value) = 17
    /\ Len(processNumber) = 22
    /\ processNumber[8] = "-"
    /\ processNumber[21] = "."

\* C2: for every input text, the digits of the mask are the first 20
\* digits of the input, in the same order.
C2_DigitsPreserved == DigitsOf(processNumber) = Take(DigitsOf(value), 20)

C2_Witness ==
    /\ ~IsDigitString(value)
    /\ Len(DigitsOf(value)) > 20
    /\ Len(DigitsOf(processNumber)) = 20

\* C8: the mask never has more than 20 digits or more than 25 characters,
\* and for an input with 20 digits or more it is the full mask
\* NNNNNNN-DD.AAAA.J.TR.OOOO of the first 20 digits.
C8_AtMostTwentyDigits ==
    /\ Len(DigitsOf(processNumber)) <= 20
    /\ Len(processNumber) <= 25
    /\ Len(DigitsOf(value)) >= 20 =>
           processNumber = FullMask(Take(DigitsOf(value), 20))

C8_Witness ==
    /\ Len(DigitsOf(value)) > 20
    /\ Len(processNumber) = 25

\* C9: every separator of the mask has a digit on both sides: the mask
\* neither starts nor ends with a separator and has no two in a row.
C9_SeparatorsBetweenDigits ==
    \A i \in 1..Len(processNumber) :
        IsSeparator(processNumber[i]) =>
            /\ 1 < i
            /\ i < Len(processNumber)
            /\ processNumber[i - 1] \in DigitChars
            /\ processNumber[i + 1] \in DigitChars

C9_Witness ==
    /\ Len(DigitsOf(value)) = 14
    /\ Len(processNumber) = 17
    /\ IsSeparator(processNumber[16])

\* C10: a digit string of at most 7 digits is rendered unchanged, and the
\* reference inputs of 9, 13 and 20 digits give the reference masks.
C10_ReferenceMasks ==
    /\ (IsDigitString(value) /\ Len(value) <= 7) => processNumber = value
    /\ value = <<"1", "2", "3", "4", "5", "6", "7", "8", "9">> =>
           processNumber = <<"1", "2", "3", "4", "5", "6", "7", "-", "8", "9">>
    /\ value = <<"1", "2", "3", "4", "5", "6", "7", "8", "9", "0", "1", "2", "3">> =>
           processNumber = <<"1", "2", "3", "4", "5", "6", "7", "-", "8", "9", ".",
                             "0", "1", "2", "3">>
    /\ value = <<"1", "2", "3", "4", "5", "6", "7", "8", "9", "0",
                 "1", "2", "3", "4", "5", "6", "7", "8", "9", "0">> =>
           processNumber = <<"1", "2", "3", "4", "5", "6", "7", "-", "8", "9", ".",
                             "0", "1", "2", "3", ".", "4", ".", "5", "6", ".",
                             "7", "8", "9", "0">>

C10_Witness ==
    /\ value = <<"1", "2", "3", "4", "5", "6", "7", "8", "9", "0",
                 "1", "2", "3", "4", "5", "6", "7", "8", "9", "0">>
    /\ Len(processNumber) = 25

(***************************************************************************)
(* Properties of the urgency flag.  In every state of SpecUrgency with     *)
(* rendered true, urgent and days are what the last render computed for    *)
(* case_ with the clock at renderedAt.                                     *)
(***************************************************************************)
HasDeadlineText == case_.deadline_date.type = "string"

\* the deadline of case_ is a text that new Date() can read
ParseableDeadline ==
    /\ Truthy(case_.deadline_date)
    /\ ~DateParse(case_.deadline_date.chars).nan

\* deadline - now in milliseconds, for a parseable deadline
DeadlineDiff == DateParse(case_.deadline_date.chars).v - renderedAt

\* C3: isUrgent is false for a case without deadline (null, absent) and
\* otherwise true exactly when 0 <= getDaysUntilDeadline(deadline) <= 7.
C3_IsUrgentAgrees ==
    rendered =>
        IF ~HasDeadlineText THEN urgent = FALSE
        ELSE LET d == getDaysUntilDeadline(case_.deadline_date.chars, renderedAt)
             IN  urgent = (~d.nan /\ 0 <= d.v /\ d.v <= 7)

C3_Witness ==
    /\ rendered
    /\ HasDeadlineText
    /\ urgent
    /\ days = Num(7)

\* C4: for a deadline text that cannot be parsed, getDaysUntilDeadline
\* returns 0 and isUrgent returns true.
C4_UnparseableCountsAsToday ==
    (/\ rendered
     /\ HasDeadlineText
     /\ case_.deadline_date.chars \in UnparseableTexts)
        => (days = Num(0) /\ urgent = TRUE)

\* C5 as stated: a parseable deadline earlier than the current time, by
\* any amount, is never urgent.  (Refuted by a deadline 1 ms in the past.)
C5_PastNeverUrgent ==
    (rendered /\ ParseableDeadline /\ DeadlineDiff < 0) => urgent = FALSE

\* C5 amended: a parseable deadline that is one day (86,400,000 ms) or
\* more earlier than the current time is not urgent; one that is less than
\* a day in the past counts 0 days and is urgent.
C5_PastByADayNotUrgent ==
    (rendered /\ ParseableDeadline) =>
        /\ DeadlineDiff <= -msPerDay => urgent = FALSE
        /\ (-msPerDay < DeadlineDiff /\ DeadlineDiff < 0) =>
               (urgent = TRUE /\ days = Num(0))

C5_Witness ==
    /\ rendered
    /\ ParseableDeadline
    /\ DeadlineDiff = -msPerDay
    /\ urgent = FALSE

\* C6: for a parseable deadline getDaysUntilDeadline is
\* ceil((deadline - now) / 86,400,000), the least integer k with
\* k * 86,400,000 >= deadline - now; now = 2024-01-01T00:00:00Z and
\* deadline = 2024-01-05T00:00:00Z give 4.
C6_DaysIsCeiling ==
    (rendered /\ ParseableDeadline) =>
        /\ ~days.nan
        /\ days.v * msPerDay >= DeadlineDiff
        /\ (days.v - 1) * msPerDay < DeadlineDiff
        /\ (/\ case_.deadline_date.chars = IsoTextShort(<<2024, 1, 5>>, <<0, 0, 0, 0>>)
            /\ renderedAt = 0)
               => days = Num(4)

C6_Witness ==
    /\ rendered
    /\ renderedAt = 0
    /\ case_.deadline_date = Str(IsoTextShort(<<2024, 1, 5>>, <<0, 0, 0, 0>>))
    /\ days = Num(4)

\* C7: a deadline at or after the current time and at most 7 days after
\* it is urgent; a deadline more than 7 days after the current time is
\* not urgent.
C7_UrgentWindow ==
    (rendered /\ ParseableDeadline) =>
        /\ (0 <= DeadlineDiff /\ DeadlineDiff <= 7 * msPerDay) => urgent = TRUE
        /\ DeadlineDiff > 7 * msPerDay => urgent = FALSE

C7_Witness ==
    /\ rendered
    /\ ParseableDeadline
    /\ DeadlineDiff = 7 * msPerDay
    /\ urgent = TRUE

(***************************************************************************)
(* Further properties of the CNJ mask (SpecFormat).                        *)
(***************************************************************************)
MaskChars == DigitChars \cup {"-", "."}

IsPrefix(p, s) == Len(p) <= Len(s) /\ SubSeq(s, 1, Len(p)) = p

\* C11: every input, the empty one and those without any digit included,
\* is rendered as a string of digits and separators; an input without
\* digits is rendered as the empty string.
C11_TotalAndEmptyWithoutDigits ==
    /\ \A i \in 1..Len(processNumber) : processNumber[i] \in MaskChars
    /\ DigitsOf(value) = <<>> => processNumber = <<>>

C11_Witness ==
    /\ value # <<>>
    /\ DigitsOf(value) = <<>>
    /\ processNumber = <<>>

\* C12: for a digit string d, the mask of every prefix of d is a prefix
\* of the mask of d, and no other digit string of at most 20 digits has
\* the mask of d when d has at most 20 digits.
C12_MonotonicInPrefix ==
    IsDigitString(value) =>
        /\ \A k \in 0..Len(value) :
               IsPrefix(formatProcessNumber(Take(value, k)), processNumber)
        /\ Len(value) <= 20 =>
               \A d \in DigitRuns :
                   (Len(d) <= 20 /\ d # value) => formatProcessNumber(d) # processNumber

C12_Witness ==
    /\ IsDigitString(value)
    /\ Len(value) = 14
    /\ Len(processNumber) = 17
    /\ formatProcessNumber(Take(value, 13)) # processNumber
    /\ IsPrefix(formatProcessNumber(Take(value, 13)), processNumber)

(***************************************************************************)
(* Properties of CNJSearch with its search (SpecSearch).                   *)
(***************************************************************************)
\* C13: a change of the search field (a step that gives value or
\* processNumber a new value) leaves searchResults, error and isLoading,
\* and the requests in flight, as they were.
C13_InputChangeFrame ==
    [][(value' # value \/ processNumber' # processNumber)
          => UNCHANGED <<searchResults, error, isLoading, pendingSearches>>]_vars

\* the field was emptied after a search had put its results on the page
C13_Witness ==
    /\ searchResults # Null
    /\ processNumber = <<>>
    /\ value # <<>>

(***************************************************************************)
(* Properties of the case list and its filters (SpecFilter).               *)
(***************************************************************************)
\* the texts of a case that the search filter looks into, lower-cased
SearchableTexts(c) ==
    {toLowerCase(c.title), toLowerCase(c.id)}
        \cup (IF c.opposing_party.type = "string"
              THEN {toLowerCase(c.opposing_party.chars)}
              ELSE {})

\* every search term that matches some case of the list, the empty term,
\* and a term that matches none
TermsFor(list) ==
    {<<>>, <<"z">>}
        \cup UNION {{SubSeq(t, i, j) : i \in 1..Len(t), j \in 1..Len(t)} :
                      t \in UNION {SearchableTexts(list[k]) : k \in 1..Len(list)}}

\* the cases of the list whose attribute has the value v
WithValue(list, attr, v) == SelectSeq(list, LAMBDA c : c[attr] = v)

\* some setting of the three filter controls displays exactly those cases
Selectable(list, attr, v) ==
    \E term \in TermsFor(list), status \in {"all"} \cup STATUS_LABELS,
       type \in {"all"} \cup CASE_TYPES :
        filterCases(list, term, status, type) = WithValue(list, attr, v)

\* C18: for status, case type and responsible lawyer alike, and for every
\* value of the attribute that occurs in the loaded list, the filters can
\* be set so that exactly the cases with that value are displayed.
C18_FilterPerAttribute ==
    \A attr \in {"status", "case_type", "responsible_lawyer"} :
        \A k \in 1..Len(cases) :
            Selectable(cases, attr, cases[k][attr])

(***************************************************************************)
(* Properties of the creation form (SpecCreate).                           *)
(***************************************************************************)
\* a YYYY-MM-DDTHH:mm:ss.sssZ text that denotes an instant
IsIsoDateTime(x) ==
    /\ x.type = "string"
    /\ Len(x.chars) = 24
    /\ ~DateParse(x.chars).nan

NullOrIso(x) == x.type = "null" \/ IsIsoDateTime(x)

\* a date of the form as it has to appear in the request
SentAs(text, x) ==
    IF text = <<>> THEN x.type = "null"
    ELSE IsIsoDateTime(x) /\ DateParse(x.chars) = DateParseLocal(text)

\* C14: deadline_date and court_date of every create-case request in flight
\* are null or an ISO-8601 date-time text, and at the moment a request is
\* sent an empty date of the form is sent as null and any other one as the
\* ISO text of the instant it denotes.
C14_DatesNullOrIso ==
    /\ [](pendingCreate.type = "request"
            => /\ NullOrIso(pendingCreate.body.deadline_date)
               /\ NullOrIso(pendingCreate.body.court_date))
    /\ [][(pendingCreate.type = "null" /\ pendingCreate'.type = "request")
            => /\ SentAs(newCase.deadline_date, pendingCreate'.body.deadline_date)
               /\ SentAs(newCase.court_date, pendingCreate'.body.court_date)]_vars

\* a request in flight without deadline and with a court date, which local
\* time 2024-01-10T09:30 turned into 12:30 UTC
C14_Witness ==
    /\ pendingCreate.type = "request"
    /\ pendingCreate.body.deadline_date = Null
    /\ pendingCreate.body.court_date
         = Str(IsoText(<<2024, 1, 10>>, <<12, 30, 0, 0>>))

\* a is b with some elements left out
RECURSIVE IsSubsequence(_, _)
IsSubsequence(a, b) ==
    IF a = <<>> THEN TRUE
    ELSE IF b = <<>> THEN FALSE
    ELSE IF Head(a) = Head(b) THEN IsSubsequence(Tail(a), Tail(b))
    ELSE IsSubsequence(a, Tail(b))

\* C15: once the list is loaded, no step removes, changes or reorders a
\* case of the list or makes the list shorter, and no create-case request
\* carries an id or an opened date.
C15_CasesOnlyGrow ==
    /\ [][~casesLoading
            => /\ Len(cases') >= Len(cases)
               /\ IsSubsequence(cases, cases')]_vars
    /\ [](pendingCreate.type = "request"
            => {"id", "opened_date"} \cap DOMAIN pendingCreate.body = {})

\* a creation succeeded, another failed, and the status filter was changed
C15_Witness ==
    /\ Len(cases) = 5
    /\ CreatedCount = 1
    /\ casesError = ErrorMessage("Erro ao criar caso: 422")
    /\ selectedStatus = "pending"
    /\ filteredCases = <<Case4>>

(***************************************************************************)
(* Properties of the polling components (SpecPolling).                     *)
(***************************************************************************)
\* the step mounts an instance of p
Mounts(p) == ~Mounted(p) /\ MountedIn(p, apiStatus', activeTab')

\* the step is the page reload
Reloads == apiStatus = "error" /\ apiStatus' = "checking"

\* the step shows a failure of p that the page did not show before
ShowsFailure(p) ==
    IF p = "Home" THEN apiStatus # "error" /\ apiStatus' = "error"
    ELSE /\ Mounted(p) /\ MountedIn(p, apiStatus', activeTab')
         /\ pollError[p] = Null /\ pollError'[p] # Null

\* C16: every firing of the timer of Home, MarketData or AccountInfo adds
\* an unresolved run, however many runs are unresolved already; a run is
\* added by nothing but a firing, the mount of the component or the reload
\* of the page; the step that shows a failure takes the failed run away and
\* adds none.
C16_NoBackpressureNoRetry ==
    [][\A p \in Pollers :
          /\ firedTimer' = p
               => inFlight'[p] + orphans'[p] = Unresolved(p) + 1
          /\ inFlight'[p] + orphans'[p] > Unresolved(p)
               => firedTimer' = p \/ Mounts(p) \/ Reloads
          /\ ShowsFailure(p)
               => inFlight'[p] + orphans'[p] = Unresolved(p) - 1]_vars

\* two health checks and two market fetches are unresolved at once, and so
\* are two account fetches whose instance is gone; the last step was a
\* firing of the market timer
C16_Witness ==
    /\ inFlight["Home"] = 2
    /\ inFlight["MarketData"] = 2
    /\ orphans["AccountInfo"] = 2
    /\ firedTimer = "MarketData"

(***************************************************************************)
(* Properties of the CNJ lookup of Search (SpecLookup).                    *)
(***************************************************************************)
\* the segments J.TR of a process number NNNNNNN-DD.AAAA.J.TR.OOOO: the
\* branch of justice and the tribunal
TribunalOf(number) == SubSeq(removeNonDigits(number), 14, 16)

\* C17: two lookups of process numbers of different tribunals are sent to
\* different tribunal aliases.
C17_RoutedByNumber ==
    \A a, b \in cnjLookups :
        TribunalOf(a.numeroProcesso) # TribunalOf(b.numeroProcesso)
            => a.tribunalAlias # b.tribunalAlias

(***************************************************************************)
(* Properties of DocumentUpload (SpecUpload).                              *)
(***************************************************************************)
\* the name has an extension, and the last one, lower-cased, is allowed
HasAllowedExtension(name) ==
    \E i \in 1..Len(name) :
        /\ name[i] = "."
        /\ \A j \in (i + 1)..Len(name) : name[j] # "."
        /\ toLowerCase(SubSeq(name, i, Len(name))) \in ALLOWED_TYPES

\* the entry is the one of a file that validation rejected
Rejected(f) == f.error \in {TypeNotAllowed, FileTooLarge}

\* C19: a file of the list was accepted exactly if its last extension,
\* lower-cased, is an allowed one and its size is at most 52,428,800 bytes;
\* the entry of a rejected file has status 'error' and no upload request
\* was sent for it.
C19_AcceptedIffAllowed ==
    \A k \in 1..Len(uploadedFiles) :
        LET f == uploadedFiles[k]
        IN  /\ ~Rejected(f) <=> (HasAllowedExtension(f.file.name) /\ f.file.size <= 52428800)
            /\ Rejected(f) => (f.status = "error" /\ f.id \notin uploadRequests)

(***************************************************************************)
(* The urgency flag over time (SpecUrgency).                               *)
(***************************************************************************)
\* the last render showed the case, with a parseable deadline, as urgent
ShownUrgent == rendered /\ ParseableDeadline /\ urgent

\* the last render showed the case, with a parseable deadline, as not urgent
ShownNotUrgent == rendered /\ ParseableDeadline /\ ~urgent

OccursIn(term, text) ==
    \E i \in 0..(Len(text) - Len(term)) :
        \A j \in 1..Len(term) :
            toLowerCase(<<text[i + j]>>) = toLowerCase(<<term[j]>>)

\* the case passes the three filters as they are set
PassesFilters(c) ==
    /\ searchTerm # <<>> =>
           \/ OccursIn(searchTerm, c.title)
           \/ c.opposing_party.type = "string" /\ OccursIn(searchTerm, c.opposing_party.chars)
           \/ OccursIn(searchTerm, c.id)
    /\ selectedStatus # "all" => c.status = selectedStatus
    /\ selectedType # "all" => c.case_type = selectedType

\* C21: filteredCases is the subsequence of cases, in the order of cases,
\* of the cases that pass the text, status and type filters together; with
\* no filter set it is cases itself.
C21_FilteredIsFilter ==
    /\ filteredCases = SelectSeq(cases, PassesFilters)
    /\ (searchTerm = <<>> /\ selectedStatus = "all" /\ selectedType = "all")
           => filteredCases = cases

\* the term B, found in titles and opposing parties whatever the letter
\* case, together with the status filter
C21_Witness ==
    /\ searchTerm = <<"B">>
    /\ selectedStatus = "active"
    /\ selectedType = "civil"
    /\ cases = <<Case4, Case3, Case2, Case1>>
    /\ filteredCases = <<Case3, Case2, Case1>>


(***************************************************************************)
(* C22: at the end of a render of the case list the urgency evaluations of *)
(* the case agree with each other, as they would if all of them had used   *)
(* one clock value: the evaluation behind the count equals the one behind  *)
(* the badge, and for a case with a deadline the colour and the badge are  *)
(* those of the day count shown in the label.                              *)
(***************************************************************************)
C22_RenderAgrees ==
    RenderDone =>
        /\ countUrgent = badgeUrgent
        /\ Truthy(case_.deadline_date) =>
            /\ labelRed = NumLeq(labelDays, Num(7))
            /\ badgeUrgent = (NumLeq(labelDays, Num(7)) /\ NumGeq(labelDays, Num(0)))

(***************************************************************************)
(* C23: formatProcessNumber is idempotent on every text the field can      *)
(* hold, and the stored processNumber, which is the formatter applied to   *)
(* the last event value, is a fixed point of the formatter after every     *)
(* typing, deleting or pasting event.                                      *)
(***************************************************************************)
C23_FixedPoint ==
    /\ processNumber = formatProcessNumber(value)
    /\ formatProcessNumber(processNumber) = processNumber
    /\ formatProcessNumber(formatProcessNumber(value)) = formatProcessNumber(value)

\* a key was typed at the end of a masked value with separators, and the
\* formatter moved a separator in front of it
C23_Witness ==
    /\ Len(value) > 9
    /\ LET masked == SubSeq(value, 1, Len(value) - 1)
       IN  /\ formatProcessNumber(masked) = masked
           /\ \E i \in 1..Len(masked) : masked[i] = "."
    /\ IsDigit(value[Len(value)])
    /\ processNumber # value
    /\ formatProcessNumber(processNumber) = processNumber

(***************************************************************************)
(* Properties of handleCreateCase after the await (SpecCreate).            *)
(***************************************************************************)
\* the step ends the creation request in flight
EndsCreate == pendingCreate.type = "request" /\ pendingCreate' = Null

\* the step is the success path: the returned case is prepended, the form
\* is closed and every field is reset
CreateSucceeded ==
    /\ cases' = <<CreatedCase(pendingCreate.body)>> \o cases
    /\ ~showNewCaseForm'
    /\ newCase' = EmptyForm
    /\ casesError' = casesError

\* C24: the step that ends a creation request ends with isSubmitting
\* false, and it either prepends the returned case, closes the form and
\* resets every field, or leaves cases alone, sets error and leaves the form
\* open with the values it holds.
C24_AllOrNothing ==
    [][EndsCreate =>
        /\ ~isSubmitting'
        /\ \/ CreateSucceeded
           \/ /\ cases' = cases
              /\ casesError' # Null
              /\ showNewCaseForm'
              /\ newCase' = newCase]_vars

\* C24, amended: on failure the form is left as it is, open or cancelled
\* by the user while the request was in flight, with the values it holds.
C24_AllOrNothingFormAsLeft ==
    [][EndsCreate =>
        /\ ~isSubmitting'
        /\ \/ CreateSucceeded
           \/ /\ cases' = cases
              /\ casesError' # Null
              /\ showNewCaseForm' = showNewCaseForm
              /\ newCase' = newCase]_vars

\* a creation failed after the user had cancelled the form with a title
\* entered; nothing was added to the list
C24_Witness ==
    /\ casesError = ErrorMessage("Erro ao criar caso: 422")
    /\ pendingCreate = Null
    /\ ~isSubmitting
    /\ ~showNewCaseForm
    /\ newCase.title # <<>>
    /\ CreatedCount = 0
    /\ Len(cases) = 4

(***************************************************************************)
(* Properties of CNJSearch.handleSearch (SpecSearchFair).                  *)
(***************************************************************************)
\* exactly one of error and searchResults is set
OneOutcome == (error # Null) # (searchResults # Null)

HasEntry(list, id) == \E k \in 1..Len(list) : list[k].id = id

\* the entry of the list with the id
EntryOf(list, id) == list[CHOOSE k \in 1..Len(list) : list[k].id = id]

\* the changes of status of the lifecycle
LifecycleSteps ==
    {<<"uploading", "processing">>, <<"processing", "success">>,
     <<"processing", "error">>}

\* C26: the status of an entry changes only along uploading -> processing
\* -> success or error; its progress is one of 0, 20, ..., 100, never
\* decreases and changes only while the status is 'uploading'; an entry in
\* 'success' or 'error' never changes again; an entry is created with
\* progress 0 in 'uploading' or, for a file that validateFile rejects, in
\* 'error'; an entry in 'success' has a result and no error, an entry in
\* 'error' has no result.
C26_Lifecycle ==
    /\ [][\A id \in 1..nextFileId' :
            HasEntry(uploadedFiles', id) =>
                LET b == EntryOf(uploadedFiles', id)
                IN  IF HasEntry(uploadedFiles, id)
                    THEN LET a == EntryOf(uploadedFiles, id)
                         IN  /\ a.status # b.status
                                    => <<a.status, b.status>> \in LifecycleSteps
                             /\ b.progress >= a.progress
                             /\ b.progress # a.progress => a.status = "uploading"
                             /\ a.status \in {"success", "error"} => b = a
                    ELSE /\ b.status \in {"uploading", "error"}
                         /\ b.progress = 0]_vars
    /\ [](\A k \in 1..Len(uploadedFiles) :
            LET f == uploadedFiles[k]
            IN  /\ f.progress \in {0, 20, 40, 60, 80, 100}
                /\ f.status = "success" => f.result # Undefined /\ f.error = Undefined
                /\ f.status = "error" => f.result = Undefined)

\* two uploads ended: the first with a result, the second with the errors
\* that its response reported
C26_Witness ==
    /\ Len(uploadedFiles) = 2
    /\ uploadedFiles[1].status = "success"
    /\ uploadedFiles[1].result = UploadResponse
    /\ uploadedFiles[1].progress = 100
    /\ uploadedFiles[2].status = "error"
    /\ uploadedFiles[2].error = ErrorMessage("OCR failed")
    /\ uploadedFiles[2].progress = 100

\* C27: an entry that was removed never comes back, and the steps of the
\* upload of a removed file (progress, processing, success, failure) change
\* no entry of the list.
C27_RemovedForGood ==
    /\ [][\A id \in 1..(nextFileId - 1) :
            ~HasEntry(uploadedFiles, id) => ~HasEntry(uploadedFiles', id)]_vars
    /\ [][(currentUpload # NoUpload /\ currentUpload' # currentUpload
             /\ ~HasEntry(uploadedFiles, currentUpload.id))
            => \A k \in 1..Len(uploadedFiles) :
                   /\ k <= Len(uploadedFiles')
                   /\ uploadedFiles'[k] = uploadedFiles[k]]_vars

\* the entry of the file whose request is in flight was removed, and the
\* entry of an earlier file is in the list
C27_Witness ==
    /\ currentUpload.id = 2
    /\ currentUpload.progress > 100
    /\ 2 \in uploadRequests
    /\ ~HasEntry(uploadedFiles, 2)
    /\ HasEntry(uploadedFiles, 1)

\* the loop of handleFiles is at work
BatchRunning == currentUpload # NoUpload \/ fileQueue # <<>>

\* C28: no step of a running upload drops a file of the queue, whatever
\* the outcome of the upload; every batch comes to its end, and at the end
\* of the batch every entry that was not removed is in 'success' or
\* 'error'.
C28_BatchCompletes ==
    /\ [][currentUpload # NoUpload
            => nextFileId' + Len(fileQueue') = nextFileId + Len(fileQueue)]_vars
    /\ [](\A id \in 1..MaxFiles + 1 :
            (HasEntry(uploadedFiles, id)
                => <>(\/ ~HasEntry(uploadedFiles, id)
                      \/ EntryOf(uploadedFiles, id).status \in {"success", "error"})))
    /\ (BatchRunning ~> ~BatchRunning)
    /\ [](~BatchRunning
            => \A k \in 1..Len(uploadedFiles) :
                   uploadedFiles[k].status \in {"success", "error"})

\* the upload of the first file of a batch failed with a response that was
\* not ok, and the second file of the batch was uploaded
C28_Witness ==
    /\ ~BatchRunning
    /\ Len(uploadedFiles) = 2
    /\ uploadedFiles[1].error = ErrorMessage("Erro 500")
    /\ uploadedFiles[1].progress = 100
    /\ uploadedFiles[2].status = "success"

(***************************************************************************)
(* Properties of Home.apiStatus (SpecPolling).                             *)
(***************************************************************************)
\* apiStatus follows the health check that completed last, and Dashboard,
\* with the components under its tabs, is there only under 'connected'
StatusFollowsHealth ==
    /\ [](apiStatus = "checking" <=> lastHealth = "none")
    /\ [](apiStatus = "connected" <=> lastHealth = "ok")
    /\ [](apiStatus = "error" <=> lastHealth = "failed")
    /\ [](apiStatus # "connected"
            => /\ \A p \in TabPollers : ~Mounted(p) /\ inFlight[p] = 0
               /\ activeTab = "cases")
    /\ [][(apiStatus = "error" /\ lastHealth' = "ok")
            => apiStatus' = "connected" /\ activeTab' = "cases"]_vars

\* C29: apiStatus is 'checking' until the first health check completes and
\* never again; afterwards it is 'connected' exactly when the check that
\* completed last was ok, and Dashboard is rendered only under 'connected'.
C29_NeverCheckingAgain ==
    /\ StatusFollowsHealth
    /\ [][apiStatus # "checking" => apiStatus' # "checking"]_vars

\* C29, amended: apiStatus returns to 'checking' only when the user
\* reloads the page from the error screen, which constructs Home anew.
C29_CheckingAgainByReload ==
    /\ StatusFollowsHealth
    /\ [][(apiStatus # "checking" /\ apiStatus' = "checking")
            => apiStatus = "error" /\ PollInit']_vars
    /\ [][apiStatus = "connected" => apiStatus' # "checking"]_vars

\* a health check failed after an earlier one had succeeded: the error
\* screen has replaced the Dashboard
C29_Witness ==
    /\ apiStatus = "error"
    /\ lastHealth = "failed"
    /\ isConnected
    /\ inFlight["Home"] > 0

(***************************************************************************)
(* C30: the step that ends a trade submission ends with isSubmitting       *)
(* false; after a success the message is the success text, price,          *)
(* stop_loss, take_profit and comment are empty, and symbol, side and      *)
(* quantity are as the user last set them, edits made during the request   *)
(* included; after a failure the message is the error text and no field of *)
(* the form has changed.                                                   *)
(***************************************************************************)
C30_SubmitOutcome ==
    [][(pendingTrade.type = "request" /\ pendingTrade' = Null)
        => /\ ~tradeSubmitting'
           /\ \/ /\ message'.type = "success"
                 /\ formData' = ResetForm(formData)
              \/ /\ message'.type = "error"
                 /\ formData' = formData]_vars

====
